---------------------------- MODULE Spec2Model ----------------------------
(* Feed pagination (PostFeed), the GET /api/posts handler, and the like /  *)
(* save toggles of PostCard with the /api/likes and /api/saves handlers.   *)
EXTENDS Integers, Sequences, FiniteSets, TLC

(* ------------------------------ bounds --------------------------------- *)
NumPosts == 13
MaxInserts == 1
MaxFetches == 4
MaxClicks == 3
MaxOtherLikes == 5
MaxComments == 3
MaxOpens == 2
MaxDeletes == 2
MaxLoads == 3
PatchPosts == 3

(* -------------------------- program constants -------------------------- *)
Limit == 10
OffsetStep == 10
CardPost == 1
Target == 1
PreviewLimit == 2
MAX_COMMENT_LENGTH == 1000
NoPost == 0
OwnPosts == {1, 2}
ForeignComments == {-1}
NoQuery == 0

NoObserver == [armed |-> FALSE, offset |-> 0, hasMore |-> FALSE, loading |-> FALSE]
NoError == "null"

VARIABLES
  serverPosts,   \* rows of post_stats, newest first (ORDER BY created_at DESC)
  likes,         \* post ids the viewer has a row for in table likes
  saves,         \* post ids the viewer has a row for in table saves
  otherLikes,    \* likes of other users on every post
  signedIn,      \* auth() yields a user id
  mounted,       \* the mount effect of PostFeed has run
  posts,         \* PostFeed state: posts
  loading,       \* PostFeed state: loading
  hasMore,       \* PostFeed state: hasMore
  error,         \* PostFeed state: error
  offset,        \* PostFeed state: offset
  loadingRef,    \* PostFeed ref: loadingRef.current
  observer,      \* the IntersectionObserver callback closure now installed
  fetches,       \* GET /api/posts requests in flight
  issued,        \* history: every fetch call made, in order
  nInserted,     \* history: posts inserted on the server after mount
  sentinelFailed,\* history: a sentinel fetch settled and no retry was asked
  pages,         \* history: the pages loadPosts received, in order
  skipped,       \* history: origins of loadPosts calls stopped by loadingRef
  refreshAsked,  \* history: refreshFeed was called and no fetch settled since
  isLiked,       \* PostCard state: isLiked
  isSaved,       \* PostCard state: isSaved
  mutations,     \* like / save requests in flight
  alerts,        \* number of alert() calls made by PostCard
  clicks,        \* history: like / save clicks so far, in order
  settled,       \* history: the clicks whose request has settled, with status
  follows,       \* user ids the viewer has a row for in table follows
  isFollowing,   \* FollowButton state: isFollowing
  isLoading,     \* FollowButton state: isLoading
  followReqs,    \* follow / unfollow requests in flight
  serverComments,\* comment ids of the card's post, oldest first (created_at)
  comments,      \* PostCard state: comments
  loadingComments,\* PostCard state: loadingComments
  commentsCount, \* comments_count of the card's post in the feed list
  closureCount,  \* post.comments_count as the comment handlers captured it
  previewMounted,\* the lazy-loading effect of PostCard has run
  submitting,    \* CommentForm state: submitting
  formError,     \* CommentForm state: error is set
  commentReqs,   \* /api/comments requests in flight
  commentSeq,    \* history: number of /api/comments requests made
  selectedPostId,\* PostFeed state: selectedPostId (NoPost for null)
  isModalOpen,   \* PostFeed state: isModalOpen
  closeTimers,   \* pending setTimeout callbacks of handleModalClose
  modalInst,     \* history: number of PostModal instances mounted so far
  isDeleteDialogOpen, \* PostModal state: isDeleteDialogOpen
  isDeleting,    \* DeletePostDialog state: isDeleting
  deleteReqs,    \* DELETE /api/posts/{id} requests in flight
  nOpens,        \* history: number of times a post was opened
  deleteSeq,     \* history: number of delete requests made
  serverMedia,   \* post ids whose image file is in the storage bucket
  modalComments, \* PostModal state: comments, as the post they belong to
  modalRef,      \* PostModal ref: isLoadingCommentsRef.current
  modalLoads,    \* GET /api/comments requests of PostModal in flight
  loadSeq,       \* history: number of comment loads PostModal has started
  effectDeps,    \* open, postId and instance the PostModal effect last ran for
  query,         \* SearchPage state: query
  searchTimer,   \* the 300 ms debounce timer of SearchPage is pending
  results,       \* SearchPage state: posts / users, as the query they answer
  searchReqs,    \* GET /api/search requests in flight
  searchSeq      \* history: number of search requests made

serverVars == <<serverPosts, likes, saves, otherLikes, signedIn>>
feedVars == <<mounted, loading, hasMore, error, offset, loadingRef, observer,
              fetches, issued, nInserted, sentinelFailed, pages, skipped,
              refreshAsked>>
cardVars == <<isLiked, isSaved, mutations, alerts, clicks, settled>>
followVars == <<follows, isFollowing, isLoading, followReqs>>
commentVars == <<serverComments, comments, loadingComments, commentsCount,
                 closureCount, previewMounted, submitting, formError,
                 commentReqs, commentSeq>>
modalVars == <<selectedPostId, isModalOpen, closeTimers, modalInst,
               isDeleteDialogOpen, isDeleting, deleteReqs, nOpens, deleteSeq>>
mediaVars == <<serverMedia>>
detailVars == <<modalComments, modalRef, modalLoads, loadSeq, effectDeps>>
searchVars == <<query, searchTimer, results, searchReqs, searchSeq>>
moreVars == <<mediaVars, detailVars, searchVars>>
notMedia == <<followVars, commentVars, detailVars, searchVars>>
notDetail == <<followVars, commentVars, mediaVars, searchVars>>
notSearch == <<followVars, commentVars, modalVars, mediaVars, detailVars>>
extraVars == <<followVars, commentVars, modalVars, moreVars>>
notFollow == <<commentVars, modalVars, moreVars>>
notComment == <<followVars, modalVars, moreVars>>
notModal == <<followVars, commentVars, moreVars>>
vars == <<serverPosts, likes, saves, otherLikes, signedIn, mounted, posts,
          loading, hasMore, error, offset, loadingRef, observer, fetches,
          issued, nInserted, sentinelFailed, pages, skipped, refreshAsked,
          isLiked, isSaved, mutations, alerts, clicks, settled, follows,
          isFollowing, isLoading, followReqs, serverComments, comments,
          loadingComments, commentsCount, closureCount, previewMounted,
          submitting, formError, commentReqs, commentSeq, selectedPostId,
          isModalOpen, closeTimers, modalInst, isDeleteDialogOpen, isDeleting,
          deleteReqs, nOpens, deleteSeq, serverMedia, modalComments,
          modalRef, modalLoads, loadSeq, effectDeps, query, searchTimer, results,
          searchReqs, searchSeq>>

(* ------------------------------ helpers -------------------------------- *)
Min(a, b) == IF a < b THEN a ELSE b
Max(a, b) == IF a > b THEN a ELSE b

Ids(s) == [i \in 1..Len(s) |-> s[i].id]

(* the state added to the server and the pages beyond feed, card, follow,  *)
(* comments and modal, at rest: every post has its image file stored       *)
MoreAtRest ==
  /\ serverMedia = {serverPosts[i] : i \in 1..Len(serverPosts)}
  /\ modalComments = NoPost /\ modalRef = FALSE /\ modalLoads = {}
  /\ loadSeq = 0
  /\ effectDeps = [open |-> FALSE, postId |-> NoPost, inst |-> 0]
  /\ query = NoQuery /\ searchTimer = FALSE /\ results = NoQuery
  /\ searchReqs = {} /\ searchSeq = 0

RECURSIVE Descending(_)
Descending(n) == IF n = 0 THEN <<>> ELSE <<n>> \o Descending(n - 1)

(* post_stats view: likes_count of a post as the database holds it *)
StatLikes(id) == otherLikes + (IF id \in likes THEN 1 ELSE 0)

(* GET /api/posts: .order(created_at desc).range(offset, offset+limit-1)   *)
ServerPage(off, lim) ==
  LET lo == off + 1
      hi == Min(off + lim, Len(serverPosts))
  IN  [i \in 1..Max(hi - lo + 1, 0) |->
         [id |-> serverPosts[lo + i - 1],
          likes_count |-> StatLikes(serverPosts[lo + i - 1])]]

(* hasMore computed as "the page is not empty" *)
ServerHasMoreNonEmpty(page, lim) == Len(page) > 0

(* GET /api/posts: hasMore = postStats.length === limit *)
ServerHasMore(page, lim) == Len(page) = lim

(* loadPosts: the list after a successful non-empty page *)
AppendPage(prev, page, replace) == IF replace THEN page ELSE prev \o page

(* the sentinel div is rendered, so sentinelRef.current is set *)
SentinelRendered == hasMore /\ ~loading /\ Len(posts) > 0

(* ----------------------------- PostFeed -------------------------------- *)
(* loadPosts without its loadingRef early return *)
LoadPostsNoGuard(currentOffset, replace, origin) ==
  /\ skipped' = skipped
  /\ loadingRef' = TRUE
  /\ loading' = TRUE
  /\ error' = NoError
  /\ fetches' = fetches \cup
       {[rid |-> Len(issued) + 1, offset |-> currentOffset,
         replace |-> replace, origin |-> origin, stage |-> "sent",
         status |-> 0, page |-> <<>>, pageHasMore |-> FALSE,
         before |-> IF origin = "refresh" THEN <<>> ELSE posts]}
  /\ issued' = Append(issued,
       [origin |-> origin, offset |-> currentOffset,
        afterFailure |-> sentinelFailed, pending |-> fetches # {}])

(* loadPosts(currentOffset, replace) up to its await *)
LoadPosts(currentOffset, replace, origin) ==
  IF loadingRef
    THEN /\ skipped' = skipped \cup {origin}
         /\ UNCHANGED <<loadingRef, loading, error, fetches, issued>>
    ELSE /\ skipped' = skipped
         /\ loadingRef' = TRUE
         /\ loading' = TRUE
         /\ error' = NoError
         /\ fetches' = fetches \cup
              {[rid |-> Len(issued) + 1, offset |-> currentOffset,
                replace |-> replace, origin |-> origin, stage |-> "sent",
                status |-> 0, page |-> <<>>, pageHasMore |-> FALSE,
                before |-> IF origin = "refresh" THEN <<>> ELSE posts]}
         /\ issued' = Append(issued,
              [origin |-> origin, offset |-> currentOffset,
               afterFailure |-> sentinelFailed, pending |-> fetches # {}])

(* initial load effect: loadPosts(0, false) *)
Mount ==
  /\ ~mounted
  /\ mounted' = TRUE
  /\ LoadPosts(0, FALSE, "mount")
  /\ UNCHANGED <<posts, hasMore, offset, observer, nInserted, sentinelFailed,
                 pages, refreshAsked>>
  /\ UNCHANGED serverVars /\ UNCHANGED cardVars /\ UNCHANGED extraVars

(* React commits a render: the observer effect is cleaned up and re-run *)
Commit ==
  /\ mounted
  /\ observer' = IF SentinelRendered
                   THEN [armed |-> TRUE, offset |-> offset,
                         hasMore |-> hasMore, loading |-> loading]
                   ELSE NoObserver
  /\ observer' # observer
  /\ UNCHANGED <<mounted, posts, loading, hasMore, error, offset, loadingRef,
                 fetches, issued, nInserted, sentinelFailed, pages, skipped,
                 refreshAsked>>
  /\ UNCHANGED serverVars /\ UNCHANGED cardVars /\ UNCHANGED extraVars

(* IntersectionObserver callback with entries[0].isIntersecting *)
SentinelIntersect ==
  /\ observer.armed
  /\ observer.hasMore /\ ~observer.loading
  /\ Len(issued) < MaxFetches
  /\ offset' = observer.offset + OffsetStep
  /\ LoadPosts(observer.offset, FALSE, "sentinel")
  /\ UNCHANGED <<mounted, posts, hasMore, observer, nInserted, sentinelFailed,
                 pages, refreshAsked>>
  /\ UNCHANGED serverVars /\ UNCHANGED cardVars /\ UNCHANGED extraVars

(* refreshFeed: setOffset(0); setPosts([]); loadPosts(0, true) *)
RefreshFeed ==
  /\ mounted
  /\ Len(issued) < MaxFetches
  /\ offset' = 0
  /\ posts' = <<>>
  /\ LoadPosts(0, TRUE, "refresh")
  /\ sentinelFailed' = FALSE
  /\ refreshAsked' = TRUE
  /\ UNCHANGED <<mounted, hasMore, observer, nInserted, pages>>
  /\ UNCHANGED serverVars /\ UNCHANGED cardVars /\ UNCHANGED extraVars

(* the retry button of the error block: loadPosts(0, true) *)
RetryClick ==
  /\ mounted
  /\ error # NoError /\ ~loading
  /\ Len(issued) < MaxFetches
  /\ LoadPosts(0, TRUE, "retry")
  /\ sentinelFailed' = FALSE
  /\ UNCHANGED <<mounted, posts, hasMore, offset, observer, nInserted, pages,
                 refreshAsked>>
  /\ UNCHANGED serverVars /\ UNCHANGED cardVars /\ UNCHANGED extraVars

(* GET /api/posts answers a request *)
ServerGET(r) ==
  /\ r \in fetches /\ r.stage = "sent"
  /\ \E statsError \in BOOLEAN :
       fetches' = (fetches \ {r}) \cup
         {IF statsError
            THEN [r EXCEPT !.stage = "answered", !.status = 500]
            ELSE LET page == ServerPage(r.offset, Limit)
                 IN [r EXCEPT !.stage = "answered", !.status = 200,
                              !.page = page,
                              !.pageHasMore = IF Len(page) = 0 THEN FALSE
                                              ELSE ServerHasMore(page, Limit)]}
  /\ UNCHANGED <<mounted, posts, loading, hasMore, error, offset, loadingRef,
                 observer, issued, nInserted, sentinelFailed, pages, skipped,
                 refreshAsked>>
  /\ UNCHANGED serverVars /\ UNCHANGED cardVars /\ UNCHANGED extraVars

(* fetch() rejects with TypeError("Failed to fetch") *)
FetchFails(r) ==
  /\ r \in fetches /\ r.stage = "sent"
  /\ fetches' = (fetches \ {r}) \cup
       {[r EXCEPT !.stage = "answered", !.status = 0]}
  /\ UNCHANGED <<mounted, posts, loading, hasMore, error, offset, loadingRef,
                 observer, issued, nInserted, sentinelFailed, pages, skipped,
                 refreshAsked>>
  /\ UNCHANGED serverVars /\ UNCHANGED cardVars /\ UNCHANGED extraVars

(* loadPosts after its await, leaving hasMore alone on an empty page *)
LoadPostsSettleKeepsHasMore(r) ==
  /\ r \in fetches /\ r.stage = "answered"
  /\ fetches' = fetches \ {r}
  /\ IF r.status = 200
       THEN /\ IF Len(r.page) = 0
                 THEN /\ hasMore' = hasMore
                      /\ posts' = posts
                 ELSE /\ posts' = AppendPage(posts, r.page, r.replace)
                      /\ hasMore' = r.pageHasMore
            /\ error' = error
            /\ sentinelFailed' = sentinelFailed
            /\ pages' = Append(pages, [offset |-> r.offset, page |-> r.page,
                                       rid |-> r.rid])
       ELSE /\ error' = IF r.status = 0 THEN "connection" ELSE "server"
            /\ sentinelFailed' = (sentinelFailed \/ r.origin = "sentinel")
            /\ UNCHANGED <<posts, hasMore, pages>>
  /\ loading' = FALSE
  /\ loadingRef' = FALSE
  /\ refreshAsked' = FALSE
  /\ UNCHANGED <<mounted, offset, observer, issued, nInserted, skipped>>
  /\ UNCHANGED serverVars /\ UNCHANGED cardVars /\ UNCHANGED extraVars

(* loadPosts after its await: try / catch / finally *)
LoadPostsSettle(r) ==
  /\ r \in fetches /\ r.stage = "answered"
  /\ fetches' = fetches \ {r}
  /\ IF r.status = 200
       THEN /\ IF Len(r.page) = 0
                 THEN /\ hasMore' = FALSE
                      /\ posts' = posts
                 ELSE /\ posts' = AppendPage(posts, r.page, r.replace)
                      /\ hasMore' = r.pageHasMore
            /\ error' = error
            /\ sentinelFailed' = sentinelFailed
            /\ pages' = Append(pages, [offset |-> r.offset, page |-> r.page,
                                       rid |-> r.rid])
       ELSE /\ error' = IF r.status = 0 THEN "connection" ELSE "server"
            /\ sentinelFailed' = (sentinelFailed \/ r.origin = "sentinel")
            /\ UNCHANGED <<posts, hasMore, pages>>
  /\ loading' = FALSE
  /\ loadingRef' = FALSE
  /\ refreshAsked' = FALSE
  /\ UNCHANGED <<mounted, offset, observer, issued, nInserted, skipped>>
  /\ UNCHANGED serverVars /\ UNCHANGED cardVars /\ UNCHANGED extraVars

(* another client creates a post: it becomes the newest row *)
InsertPost ==
  /\ mounted
  /\ nInserted < MaxInserts
  /\ serverPosts' = <<Len(serverPosts) + 1>> \o serverPosts
  /\ serverMedia' = serverMedia \cup {Len(serverPosts) + 1}
  /\ nInserted' = nInserted + 1
  /\ UNCHANGED <<likes, saves, otherLikes, signedIn>>
  /\ UNCHANGED <<mounted, posts, loading, hasMore, error, offset, loadingRef,
                 observer, fetches, issued, sentinelFailed, pages, skipped,
                 refreshAsked>>
  /\ UNCHANGED cardVars /\ UNCHANGED modalVars /\ UNCHANGED notMedia

(* ------------------------- feed specification -------------------------- *)
InitFeed ==
  /\ serverPosts = Descending(NumPosts)
  /\ likes = {} /\ saves = {} /\ otherLikes = 0 /\ signedIn = TRUE
  /\ mounted = FALSE
  /\ posts = <<>>
  /\ loading = TRUE
  /\ hasMore = TRUE
  /\ error = NoError
  /\ offset = 0
  /\ loadingRef = FALSE
  /\ observer = NoObserver
  /\ fetches = {}
  /\ issued = <<>>
  /\ nInserted = 0
  /\ sentinelFailed = FALSE
  /\ pages = <<>>
  /\ skipped = {}
  /\ refreshAsked = FALSE
  /\ isLiked = FALSE /\ isSaved = FALSE /\ mutations = {} /\ alerts = 0
  /\ clicks = <<>> /\ settled = {}
  /\ follows = {} /\ isFollowing = FALSE /\ isLoading = FALSE
  /\ followReqs = {}
  /\ serverComments = <<>> /\ comments = <<>> /\ loadingComments = FALSE
  /\ commentsCount = 0 /\ closureCount = 0 /\ previewMounted = TRUE
  /\ submitting = FALSE /\ formError = FALSE
  /\ commentReqs = {} /\ commentSeq = 0
  /\ selectedPostId = NoPost /\ isModalOpen = FALSE /\ closeTimers = 0
  /\ modalInst = 0 /\ isDeleteDialogOpen = FALSE /\ isDeleting = FALSE
  /\ deleteReqs = {} /\ nOpens = 0 /\ deleteSeq = 0
  /\ MoreAtRest

NextFeed ==
  \/ Mount
  \/ Commit
  \/ SentinelIntersect
  \/ RefreshFeed
  \/ RetryClick
  \/ \E r \in fetches : ServerGET(r)
  \/ \E r \in fetches : FetchFails(r)
  \/ \E r \in fetches : LoadPostsSettle(r)
  \/ InsertPost

SpecFeed == InitFeed /\ [][NextFeed]_vars

(* ------------------ scroll session to the end of the feed -------------- *)
(* the sizes of the server data set: none, less than a page, exactly one   *)
(* page, between one and two pages, exactly two pages                      *)
ScrollSizes == 0..(2 * Limit)

(* the observer effect has not yet run for the latest render *)
CommitPending ==
  /\ mounted
  /\ observer # (IF SentinelRendered
                   THEN [armed |-> TRUE, offset |-> offset,
                         hasMore |-> hasMore, loading |-> loading]
                   ELSE NoObserver)

(* GET /api/posts answers with success *)
ServerGETOk(r) == ServerGET(r) /\ \A q \in fetches' : q.status # 500

InitScroll ==
  /\ \E n \in ScrollSizes : serverPosts = Descending(n)
  /\ likes = {} /\ saves = {} /\ otherLikes = 0 /\ signedIn = TRUE
  /\ mounted = FALSE
  /\ posts = <<>>
  /\ loading = TRUE
  /\ hasMore = TRUE
  /\ error = NoError
  /\ offset = 0
  /\ loadingRef = FALSE
  /\ observer = NoObserver
  /\ fetches = {}
  /\ issued = <<>>
  /\ nInserted = 0
  /\ sentinelFailed = FALSE
  /\ pages = <<>>
  /\ skipped = {}
  /\ refreshAsked = FALSE
  /\ isLiked = FALSE /\ isSaved = FALSE /\ mutations = {} /\ alerts = 0
  /\ clicks = <<>> /\ settled = {}
  /\ follows = {} /\ isFollowing = FALSE /\ isLoading = FALSE
  /\ followReqs = {}
  /\ serverComments = <<>> /\ comments = <<>> /\ loadingComments = FALSE
  /\ commentsCount = 0 /\ closureCount = 0 /\ previewMounted = TRUE
  /\ submitting = FALSE /\ formError = FALSE
  /\ commentReqs = {} /\ commentSeq = 0
  /\ selectedPostId = NoPost /\ isModalOpen = FALSE /\ closeTimers = 0
  /\ modalInst = 0 /\ isDeleteDialogOpen = FALSE /\ isDeleting = FALSE
  /\ deleteReqs = {} /\ nOpens = 0 /\ deleteSeq = 0
  /\ MoreAtRest

(* the sentinel comes into view whenever the observer of the latest render *)
(* watches it, and every fetch succeeds                                    *)
ScrollIntersect == ~CommitPending /\ SentinelIntersect
ScrollAnswer == \E r \in fetches : ServerGETOk(r)
ScrollSettle == \E r \in fetches : LoadPostsSettle(r)

NextScroll ==
  \/ Mount
  \/ Commit
  \/ ScrollIntersect
  \/ ScrollAnswer
  \/ ScrollSettle

SpecScroll ==
  /\ InitScroll
  /\ [][NextScroll]_vars
  /\ WF_vars(Mount)
  /\ WF_vars(Commit)
  /\ WF_vars(ScrollIntersect)
  /\ WF_vars(ScrollAnswer)
  /\ WF_vars(ScrollSettle)

(* ------------------------ /api/likes, /api/saves ----------------------- *)
(* the table the request kind works on *)
Relation(kind) == IF kind = "like" THEN likes ELSE saves

(* POST /api/likes and /api/saves inserting without a UNIQUE constraint *)
ServerPOSTNoConstraint(m) ==
  /\ m \in mutations /\ m.stage = "sent" /\ m.newState
  /\ \E insertError \in BOOLEAN :
       LET status == IF ~signedIn THEN 401
                     ELSE IF insertError THEN 500
                     ELSE 201
           rel == IF status = 201 THEN Relation(m.kind) \cup {CardPost}
                  ELSE Relation(m.kind)
       IN /\ mutations' = (mutations \ {m}) \cup
               {[m EXCEPT !.stage = "answered", !.status = status]}
          /\ likes' = IF m.kind = "like" THEN rel ELSE likes
          /\ saves' = IF m.kind = "save" THEN rel ELSE saves
  /\ UNCHANGED <<serverPosts, otherLikes, signedIn, posts, isLiked, isSaved,
                 alerts, clicks, settled>>
  /\ UNCHANGED feedVars /\ UNCHANGED extraVars

(* POST /api/likes and POST /api/saves: insert under the UNIQUE constraint *)
ServerPOST(m) ==
  /\ m \in mutations /\ m.stage = "sent" /\ m.newState
  /\ \E insertError \in BOOLEAN :
       LET status == IF ~signedIn THEN 401
                     ELSE IF CardPost \in Relation(m.kind) THEN 409
                     ELSE IF insertError THEN 500
                     ELSE 201
           rel == IF status = 201 THEN Relation(m.kind) \cup {CardPost}
                  ELSE Relation(m.kind)
       IN /\ mutations' = (mutations \ {m}) \cup
               {[m EXCEPT !.stage = "answered", !.status = status]}
          /\ likes' = IF m.kind = "like" THEN rel ELSE likes
          /\ saves' = IF m.kind = "save" THEN rel ELSE saves
  /\ UNCHANGED <<serverPosts, otherLikes, signedIn, posts, isLiked, isSaved,
                 alerts, clicks, settled>>
  /\ UNCHANGED feedVars /\ UNCHANGED extraVars

(* DELETE /api/likes and DELETE /api/saves: delete the matching rows *)
ServerDELETE(m) ==
  /\ m \in mutations /\ m.stage = "sent" /\ ~m.newState
  /\ \E deleteError \in BOOLEAN :
       LET status == IF ~signedIn THEN 401
                     ELSE IF deleteError THEN 500
                     ELSE 200
           rel == IF status = 200 THEN Relation(m.kind) \ {CardPost}
                  ELSE Relation(m.kind)
       IN /\ mutations' = (mutations \ {m}) \cup
               {[m EXCEPT !.stage = "answered", !.status = status]}
          /\ likes' = IF m.kind = "like" THEN rel ELSE likes
          /\ saves' = IF m.kind = "save" THEN rel ELSE saves
  /\ UNCHANGED <<serverPosts, otherLikes, signedIn, posts, isLiked, isSaved,
                 alerts, clicks, settled>>
  /\ UNCHANGED feedVars /\ UNCHANGED extraVars

(* fetch() rejects: the request or its response is lost *)
MutationFetchFails(m) ==
  /\ m \in mutations
  /\ m.stage = "sent" \/ m.status # 0
  /\ mutations' = (mutations \ {m}) \cup
       {[m EXCEPT !.stage = "answered", !.status = 0]}
  /\ UNCHANGED <<posts, isLiked, isSaved, alerts, clicks, settled>>
  /\ UNCHANGED serverVars /\ UNCHANGED feedVars /\ UNCHANGED extraVars

(* ------------------------------ PostCard ------------------------------- *)
(* PostFeed.handleLike: the list after onLike(postId, isLiked) *)
HandleLike(prev, postId, liked) ==
  [i \in 1..Len(prev) |->
     IF prev[i].id = postId
       THEN [prev[i] EXCEPT !.likes_count =
               IF liked THEN @ + 1 ELSE Max(0, @ - 1)]
       ELSE prev[i]]

(* response.ok *)
ResponseOk(status) == status >= 200 /\ status <= 299

(* the try block throwing on every !response.ok, 409 included *)
ThrowsOnConflict(newState, status) == ~ResponseOk(status)

(* the try block of a toggle throws: !response.ok, 409 of a POST excepted *)
Throws(newState, status) ==
  /\ ~ResponseOk(status)
  /\ ~(newState /\ status = 409)

(* the like continuation with a catch block that does not roll back *)
LikeOutcomeNoRollback(m, status) ==
  IF Throws(m.newState, status)
    THEN [isLiked |-> isLiked, posts |-> posts, alerts |-> alerts + 1]
    ELSE [isLiked |-> isLiked,
          posts |-> HandleLike(posts, CardPost, m.newState),
          alerts |-> alerts]

(* like button onClick after its await: the local state it leaves *)
LikeOutcome(m, status) ==
  IF Throws(m.newState, status)
    THEN [isLiked |-> ~m.newState, posts |-> posts, alerts |-> alerts + 1]
    ELSE [isLiked |-> isLiked,
          posts |-> HandleLike(posts, CardPost, m.newState),
          alerts |-> alerts]

(* bookmark button onClick after its await: the local state it leaves *)
SaveOutcome(m, status) ==
  IF Throws(m.newState, status)
    THEN [isSaved |-> ~m.newState, alerts |-> alerts + 1]
    ELSE [isSaved |-> isSaved, alerts |-> alerts]

(* the like count the card shows: post.likes_count of its post *)
LikesCount == LET i == CHOOSE k \in 1..Len(posts) : posts[k].id = CardPost
              IN posts[i].likes_count

(* a request of the same kind is still in flight *)
InFlight(kind) == \E m \in mutations : m.kind = kind

(* an optimistic update that also adjusts the count in the list *)
OptimisticWithCount(flag, prev) ==
  [flag |-> ~flag, posts |-> HandleLike(prev, CardPost, ~flag)]

(* the optimistic update of a toggle: the flag and the list after the click *)
Optimistic(flag, prev) == [flag |-> ~flag, posts |-> prev]

NewMutation(kind, newState, prevFlag) ==
  [seq |-> Len(clicks) + 1, kind |-> kind, newState |-> newState,
   prevFlag |-> prevFlag, prevCount |-> LikesCount,
   overlap |-> InFlight(kind), via |-> "button", stage |-> "sent",
   status |-> 0]

(* like button onClick up to its await *)
LikeClick ==
  /\ Len(clicks) < MaxClicks
  /\ LET opt == Optimistic(isLiked, posts)
     IN /\ isLiked' = opt.flag
        /\ posts' = opt.posts
        /\ mutations' = mutations \cup {NewMutation("like", opt.flag, isLiked)}
        /\ clicks' = Append(clicks, [kind |-> "like", newState |-> opt.flag,
                                     overlap |-> InFlight("like")])
  /\ UNCHANGED <<isSaved, alerts, settled>>
  /\ UNCHANGED serverVars /\ UNCHANGED feedVars /\ UNCHANGED extraVars

(* bookmark button onClick up to its await *)
SaveClick ==
  /\ Len(clicks) < MaxClicks
  /\ isSaved' = ~isSaved
  /\ mutations' = mutations \cup {NewMutation("save", ~isSaved, isSaved)}
  /\ clicks' = Append(clicks, [kind |-> "save", newState |-> ~isSaved,
                               overlap |-> InFlight("save")])
  /\ UNCHANGED <<posts, isLiked, alerts, settled>>
  /\ UNCHANGED serverVars /\ UNCHANGED feedVars /\ UNCHANGED extraVars

(* like button onClick after its await *)
LikeSettle(m) ==
  /\ m \in mutations /\ m.kind = "like" /\ m.stage = "answered"
  /\ m.via = "button"
  /\ mutations' = mutations \ {m}
  /\ LET out == LikeOutcome(m, m.status)
     IN /\ isLiked' = out.isLiked
        /\ posts' = out.posts
        /\ alerts' = out.alerts
  /\ settled' = settled \cup
       {[seq |-> m.seq, status |-> m.status,
         threw |-> Throws(m.newState, m.status)]}
  /\ UNCHANGED <<isSaved, clicks>>
  /\ UNCHANGED serverVars /\ UNCHANGED feedVars /\ UNCHANGED extraVars

(* bookmark button onClick after its await *)
SaveSettle(m) ==
  /\ m \in mutations /\ m.kind = "save" /\ m.stage = "answered"
  /\ mutations' = mutations \ {m}
  /\ LET out == SaveOutcome(m, m.status)
     IN /\ isSaved' = out.isSaved
        /\ alerts' = out.alerts
  /\ settled' = settled \cup
       {[seq |-> m.seq, status |-> m.status,
         threw |-> Throws(m.newState, m.status)]}
  /\ UNCHANGED <<posts, isLiked, clicks>>
  /\ UNCHANGED serverVars /\ UNCHANGED feedVars /\ UNCHANGED extraVars

(* the image's onDoubleClick up to its await, the post not being liked *)
DoubleTap ==
  /\ Len(clicks) < MaxClicks
  /\ ~isLiked
  /\ isLiked' = TRUE
  /\ mutations' = mutations \cup
       {[NewMutation("like", TRUE, isLiked) EXCEPT !.via = "doubletap"]}
  /\ clicks' = Append(clicks, [kind |-> "like", newState |-> TRUE,
                               overlap |-> InFlight("like")])
  /\ UNCHANGED <<posts, isSaved, alerts, settled>>
  /\ UNCHANGED serverVars /\ UNCHANGED feedVars /\ UNCHANGED extraVars

(* the image's onDoubleClick after its await *)
DoubleTapSettle(m) ==
  /\ m \in mutations /\ m.kind = "like" /\ m.stage = "answered"
  /\ m.via = "doubletap"
  /\ mutations' = mutations \ {m}
  /\ IF Throws(TRUE, m.status)
       THEN /\ isLiked' = FALSE
            /\ posts' = posts
       ELSE /\ isLiked' = isLiked
            /\ posts' = HandleLike(posts, CardPost, TRUE)
  /\ settled' = settled \cup
       {[seq |-> m.seq, status |-> m.status, threw |-> Throws(TRUE, m.status)]}
  /\ UNCHANGED <<isSaved, alerts, clicks>>
  /\ UNCHANGED serverVars /\ UNCHANGED feedVars /\ UNCHANGED extraVars

(* ------------------------- card specification -------------------------- *)
InitCard ==
  /\ serverPosts = <<2, 1>>
  /\ signedIn \in BOOLEAN
  /\ likes \in SUBSET {CardPost}
  /\ saves \in SUBSET {CardPost}
  /\ ~signedIn => (likes = {} /\ saves = {})
  /\ otherLikes \in {0, MaxOtherLikes}
  /\ mounted = TRUE
  /\ posts = ServerPage(0, Limit)
  /\ loading = FALSE
  /\ hasMore = FALSE
  /\ error = NoError
  /\ offset = 0
  /\ loadingRef = FALSE
  /\ observer = NoObserver
  /\ fetches = {}
  /\ issued = <<>>
  /\ nInserted = 0
  /\ sentinelFailed = FALSE
  /\ pages = <<>>
  /\ skipped = {}
  /\ refreshAsked = FALSE
  /\ isLiked = (CardPost \in likes)
  /\ isSaved = (CardPost \in saves)
  /\ mutations = {}
  /\ alerts = 0
  /\ clicks = <<>>
  /\ settled = {}
  /\ follows = {} /\ isFollowing = FALSE /\ isLoading = FALSE
  /\ followReqs = {}
  /\ serverComments = <<>> /\ comments = <<>> /\ loadingComments = FALSE
  /\ commentsCount = 0 /\ closureCount = 0 /\ previewMounted = TRUE
  /\ submitting = FALSE /\ formError = FALSE
  /\ commentReqs = {} /\ commentSeq = 0
  /\ selectedPostId = NoPost /\ isModalOpen = FALSE /\ closeTimers = 0
  /\ modalInst = 0 /\ isDeleteDialogOpen = FALSE /\ isDeleting = FALSE
  /\ deleteReqs = {} /\ nOpens = 0 /\ deleteSeq = 0
  /\ MoreAtRest

NextCard ==
  \/ LikeClick
  \/ SaveClick
  \/ \E m \in mutations : ServerPOST(m)
  \/ \E m \in mutations : ServerDELETE(m)
  \/ \E m \in mutations : MutationFetchFails(m)
  \/ \E m \in mutations : LikeSettle(m)
  \/ \E m \in mutations : SaveSettle(m)

SpecCard == InitCard /\ [][NextCard]_vars

(* the card with its double-tap like *)
NextTap ==
  \/ NextCard
  \/ DoubleTap
  \/ \E m \in mutations : DoubleTapSettle(m)

SpecTap == InitCard /\ [][NextTap]_vars

(* ----------------------------- /api/follows ---------------------------- *)
(* POST /api/follows: insert under the UNIQUE constraint *)
FollowPOST(q) ==
  /\ q \in followReqs /\ q.stage = "sent" /\ q.newState
  /\ \E insertError \in BOOLEAN :
       LET status == IF ~signedIn THEN 401
                     ELSE IF Target \in follows THEN 409
                     ELSE IF insertError THEN 500
                     ELSE 201
       IN /\ followReqs' = (followReqs \ {q}) \cup
               {[q EXCEPT !.stage = "answered", !.status = status]}
          /\ follows' = IF status = 201 THEN follows \cup {Target} ELSE follows
  /\ UNCHANGED <<isFollowing, isLoading, posts>>
  /\ UNCHANGED serverVars /\ UNCHANGED feedVars /\ UNCHANGED cardVars
  /\ UNCHANGED notFollow

(* DELETE /api/follows: delete the matching rows *)
FollowDELETE(q) ==
  /\ q \in followReqs /\ q.stage = "sent" /\ ~q.newState
  /\ \E deleteError \in BOOLEAN :
       LET status == IF ~signedIn THEN 401
                     ELSE IF deleteError THEN 500
                     ELSE 200
       IN /\ followReqs' = (followReqs \ {q}) \cup
               {[q EXCEPT !.stage = "answered", !.status = status]}
          /\ follows' = IF status = 200 THEN follows \ {Target} ELSE follows
  /\ UNCHANGED <<isFollowing, isLoading, posts>>
  /\ UNCHANGED serverVars /\ UNCHANGED feedVars /\ UNCHANGED cardVars
  /\ UNCHANGED notFollow

(* fetch() rejects: the follow request or its response is lost *)
FollowFetchFails(q) ==
  /\ q \in followReqs
  /\ q.stage = "sent" \/ q.status # 0
  /\ followReqs' = (followReqs \ {q}) \cup
       {[q EXCEPT !.stage = "answered", !.status = 0]}
  /\ UNCHANGED <<follows, isFollowing, isLoading, posts>>
  /\ UNCHANGED serverVars /\ UNCHANGED feedVars /\ UNCHANGED cardVars
  /\ UNCHANGED notFollow

(* ----------------------------- FollowButton ---------------------------- *)
(* handleFollow up to its await; the button is disabled while isLoading *)
FollowClick ==
  /\ ~isLoading
  /\ Len(clicks) < MaxClicks
  /\ isLoading' = TRUE
  /\ followReqs' = followReqs \cup
       {[seq |-> Len(clicks) + 1, newState |-> ~isFollowing,
         previousState |-> isFollowing, stage |-> "sent", status |-> 0]}
  /\ clicks' = Append(clicks, [kind |-> "follow", newState |-> ~isFollowing,
                               overlap |-> FALSE])
  /\ UNCHANGED <<follows, isFollowing, posts, isLiked, isSaved, mutations,
                 alerts, settled>>
  /\ UNCHANGED serverVars /\ UNCHANGED feedVars /\ UNCHANGED notFollow

(* handleFollow after its await: try / catch / finally *)
FollowSettle(q) ==
  /\ q \in followReqs /\ q.stage = "answered"
  /\ followReqs' = followReqs \ {q}
  /\ IF ResponseOk(q.status)
       THEN /\ isFollowing' = q.newState
            /\ alerts' = alerts
       ELSE /\ isFollowing' = q.previousState
            /\ alerts' = alerts + 1
  /\ isLoading' = FALSE
  /\ settled' = settled \cup
       {[seq |-> q.seq, status |-> q.status, threw |-> ~ResponseOk(q.status)]}
  /\ UNCHANGED <<follows, posts, isLiked, isSaved, mutations, clicks>>
  /\ UNCHANGED serverVars /\ UNCHANGED feedVars /\ UNCHANGED notFollow

(* ------------------------ follow specification ------------------------- *)
(* the feed and the card at rest *)
FeedAtRest ==
  /\ mounted = TRUE
  /\ loading = FALSE
  /\ hasMore = FALSE
  /\ error = NoError
  /\ offset = 0
  /\ loadingRef = FALSE
  /\ observer = NoObserver
  /\ fetches = {}
  /\ issued = <<>>
  /\ nInserted = 0
  /\ sentinelFailed = FALSE
  /\ pages = <<>>
  /\ skipped = {}
  /\ refreshAsked = FALSE

(* ProfileHeader passes user.isFollowing, UserSearchResults passes false *)
InitFollow ==
  /\ serverPosts = <<2, 1>>
  /\ signedIn \in BOOLEAN
  /\ likes = {} /\ saves = {} /\ otherLikes = 0
  /\ posts = ServerPage(0, Limit)
  /\ FeedAtRest
  /\ isLiked = FALSE /\ isSaved = FALSE /\ mutations = {} /\ alerts = 0
  /\ clicks = <<>> /\ settled = {}
  /\ follows \in SUBSET {Target}
  /\ ~signedIn => follows = {}
  /\ isFollowing \in {Target \in follows, FALSE}
  /\ isLoading = FALSE
  /\ followReqs = {}
  /\ serverComments = <<>> /\ comments = <<>> /\ loadingComments = FALSE
  /\ commentsCount = 0 /\ closureCount = 0 /\ previewMounted = TRUE
  /\ submitting = FALSE /\ formError = FALSE
  /\ commentReqs = {} /\ commentSeq = 0
  /\ selectedPostId = NoPost /\ isModalOpen = FALSE /\ closeTimers = 0
  /\ modalInst = 0 /\ isDeleteDialogOpen = FALSE /\ isDeleting = FALSE
  /\ deleteReqs = {} /\ nOpens = 0 /\ deleteSeq = 0
  /\ MoreAtRest

NextFollow ==
  \/ FollowClick
  \/ \E q \in followReqs : FollowPOST(q)
  \/ \E q \in followReqs : FollowDELETE(q)
  \/ \E q \in followReqs : FollowFetchFails(q)
  \/ \E q \in followReqs : FollowSettle(q)

SpecFollow == InitFollow /\ [][NextFollow]_vars

(* ---------------------------- /api/comments ---------------------------- *)
Elems(q) == {q[i] : i \in 1..Len(q)}

(* prev.filter((c) => c.id !== commentId) *)
Without(q, c) == SelectSeq(q, LAMBDA x : x # c)

(* updated.slice(-2) *)
LastTwo(q) == SubSeq(q, Max(1, Len(q) - 1), Len(q))

(* .order("created_at", ascending).range(0, limit - 1) *)
CommentsPage(lim) == SubSeq(serverComments, 1, Min(lim, Len(serverComments)))

(* the server answers comment request r with status and the given fields *)
Answered(r, status, page, comment) ==
  [r EXCEPT !.stage = "answered", !.status = status, !.page = page,
            !.comment = comment, !.latest = LastTwo(serverComments')]

(* GET /api/comments?postId&limit=2 *)
CommentsGET(r) ==
  /\ r \in commentReqs /\ r.stage = "sent" /\ r.kind = "load"
  /\ serverComments' = serverComments
  /\ \E commentsError \in BOOLEAN :
       commentReqs' = (commentReqs \ {r}) \cup
         {IF commentsError THEN Answered(r, 500, <<>>, 0)
          ELSE Answered(r, 200, CommentsPage(PreviewLimit), 0)}
  /\ UNCHANGED <<comments, loadingComments, commentsCount, closureCount,
                 previewMounted, submitting, formError, commentSeq, posts>>
  /\ UNCHANGED serverVars /\ UNCHANGED feedVars /\ UNCHANGED cardVars
  /\ UNCHANGED notComment

(* POST /api/comments: the new comment is the latest of the post *)
CommentsPOST(r) ==
  /\ r \in commentReqs /\ r.stage = "sent" /\ r.kind = "add"
  /\ \E insertError \in BOOLEAN :
       LET status == IF ~signedIn THEN 401
                     ELSE IF insertError THEN 500
                     ELSE 201
           id == MaxComments + r.rid
       IN /\ serverComments' = IF status = 201
                                 THEN Append(serverComments, id)
                                 ELSE serverComments
          /\ commentReqs' = (commentReqs \ {r}) \cup
               {Answered(r, status, <<>>, IF status = 201 THEN id ELSE 0)}
  /\ UNCHANGED <<comments, loadingComments, commentsCount, closureCount,
                 previewMounted, submitting, formError, commentSeq, posts>>
  /\ UNCHANGED serverVars /\ UNCHANGED feedVars /\ UNCHANGED cardVars
  /\ UNCHANGED notComment

(* DELETE /api/comments without the ownership check *)
CommentDeleteStatusNoOwner(commentId, deleteError) ==
  IF ~signedIn THEN 401
  ELSE IF commentId \notin Elems(serverComments) THEN 404
  ELSE IF deleteError THEN 500
  ELSE 200

(* DELETE /api/comments: the status answered for a comment *)
CommentDeleteStatus(commentId, deleteError) ==
  IF ~signedIn THEN 401
  ELSE IF commentId \notin Elems(serverComments) THEN 404
  ELSE IF commentId \in ForeignComments THEN 403
  ELSE IF deleteError THEN 500
  ELSE 200

(* DELETE /api/comments?commentId *)
CommentsDELETE(r) ==
  /\ r \in commentReqs /\ r.stage = "sent" /\ r.kind = "delete"
  /\ \E deleteError \in BOOLEAN :
       LET status == CommentDeleteStatus(r.comment, deleteError)
       IN /\ serverComments' = IF status = 200
                                 THEN Without(serverComments, r.comment)
                                 ELSE serverComments
          /\ commentReqs' = (commentReqs \ {r}) \cup
               {Answered(r, status, <<>>, r.comment)}
  /\ UNCHANGED <<comments, loadingComments, commentsCount, closureCount,
                 previewMounted, submitting, formError, commentSeq, posts>>
  /\ UNCHANGED serverVars /\ UNCHANGED feedVars /\ UNCHANGED cardVars
  /\ UNCHANGED notComment

(* fetch() rejects: the comment request or its response is lost *)
CommentFetchFails(r) ==
  /\ r \in commentReqs
  /\ r.stage = "sent" \/ r.status # 0
  /\ commentReqs' = (commentReqs \ {r}) \cup
       {[r EXCEPT !.stage = "answered", !.status = 0]}
  /\ UNCHANGED <<serverComments, comments, loadingComments, commentsCount,
                 closureCount, previewMounted, submitting, formError,
                 commentSeq, posts>>
  /\ UNCHANGED serverVars /\ UNCHANGED feedVars /\ UNCHANGED cardVars
  /\ UNCHANGED notComment

(* the viewer deletes a comment the card shows in another session *)
DeleteElsewhere(c) ==
  /\ previewMounted
  /\ c \in Elems(comments)
  /\ c \in Elems(serverComments)
  /\ serverComments' = Without(serverComments, c)
  /\ UNCHANGED <<comments, loadingComments, commentsCount, closureCount,
                 previewMounted, submitting, formError, commentReqs,
                 commentSeq, posts>>
  /\ UNCHANGED serverVars /\ UNCHANGED feedVars /\ UNCHANGED cardVars
  /\ UNCHANGED notComment

(* ----------------------- PostCard comment preview ---------------------- *)
NewRequest(kind, comment, closureLoading) ==
  [rid |-> commentSeq + 1, kind |-> kind, comment |-> comment,
   count |-> closureCount, closureLoading |-> closureLoading,
   stage |-> "sent", status |-> 0, page |-> <<>>, latest |-> <<>>]

(* the comment handlers are re-created when loadingComments changes, and   *)
(* capture post.comments_count of that render                              *)
Captured(newLoading, newCount) ==
  IF newLoading # loadingComments THEN newCount ELSE closureCount

(* loadComments() of a closure that holds closureLoading, up to its await; *)
(* reqs are the requests in flight otherwise                               *)
LoadComments(closureLoading, reqs) ==
  IF closureLoading
    THEN /\ commentReqs' = reqs
         /\ UNCHANGED <<loadingComments, commentSeq>>
    ELSE /\ loadingComments' = TRUE
         /\ commentReqs' = reqs \cup {NewRequest("load", 0, FALSE)}
         /\ commentSeq' = commentSeq + 1

(* the lazy-loading effect on mount *)
PreviewEffect ==
  /\ ~previewMounted
  /\ previewMounted' = TRUE
  /\ IF commentsCount > 0 /\ Len(comments) = 0 /\ ~loadingComments
       THEN LoadComments(loadingComments, commentReqs)
       ELSE UNCHANGED <<loadingComments, commentReqs, commentSeq>>
  /\ UNCHANGED <<serverComments, comments, commentsCount, closureCount,
                 submitting, formError, posts>>
  /\ UNCHANGED serverVars /\ UNCHANGED feedVars /\ UNCHANGED cardVars
  /\ UNCHANGED notComment

(* loadComments after its await *)
LoadCommentsSettle(r) ==
  /\ r \in commentReqs /\ r.kind = "load" /\ r.stage = "answered"
  /\ commentReqs' = commentReqs \ {r}
  /\ comments' = IF ResponseOk(r.status) THEN r.page ELSE comments
  /\ loadingComments' = FALSE
  /\ closureCount' = Captured(FALSE, commentsCount)
  /\ UNCHANGED <<serverComments, commentsCount, previewMounted, submitting,
                 formError, commentSeq, posts>>
  /\ UNCHANGED serverVars /\ UNCHANGED feedVars /\ UNCHANGED cardVars
  /\ UNCHANGED notComment

(* a text as its leading whitespace, its trimmed part and its trailing     *)
(* whitespace, each given by its length                                    *)
Text(lead, core, trail) == [lead |-> lead, core |-> core, trail |-> trail]

(* content.trim() and .length *)
Trim(content) == Text(0, content.core, 0)
Length(content) == content.lead + content.core + content.trail

(* the texts a submission is tried with: empty, blank, short, padded, of   *)
(* the maximal length and beyond it                                        *)
Contents ==
  {Text(0, 0, 0), Text(1, 0, 0), Text(1, 1, 1),
   Text(0, MAX_COMMENT_LENGTH, 0), Text(0, MAX_COMMENT_LENGTH + 1, 0)}
TypedComment == Text(0, 1, 0)

(* handleSubmit validating the content as typed, without trimming it *)
ValidationErrorUntrimmed(content) ==
  Length(content) = 0 \/ Length(content) > MAX_COMMENT_LENGTH

(* handleSubmit: the two validations before setSubmitting(true) *)
ValidationError(content) ==
  Length(Trim(content)) = 0 \/ Length(Trim(content)) > MAX_COMMENT_LENGTH

(* CommentForm.handleSubmit with the given content, and, when the content  *)
(* is valid, handleCommentSubmit up to its await                           *)
HandleSubmit(content) ==
  /\ previewMounted
  /\ ~submitting
  /\ Len(clicks) < MaxClicks
  /\ clicks' = Append(clicks, [kind |-> "comment", newState |-> TRUE,
                               overlap |-> FALSE, content |-> content])
  /\ IF ValidationError(content)
       THEN /\ formError' = TRUE
            /\ UNCHANGED <<submitting, commentReqs, commentSeq>>
       ELSE /\ submitting' = TRUE
            /\ formError' = FALSE
            /\ commentReqs' =
                 commentReqs \cup {NewRequest("add", 0, loadingComments)}
            /\ commentSeq' = commentSeq + 1
  /\ UNCHANGED <<serverComments, comments, loadingComments, commentsCount,
                 closureCount, previewMounted, posts>>
  /\ UNCHANGED <<isLiked, isSaved, mutations, alerts, settled>>
  /\ UNCHANGED serverVars /\ UNCHANGED feedVars /\ UNCHANGED notComment

(* a submission of a short comment *)
CommentSubmit == HandleSubmit(TypedComment)

(* handleCommentSubmit after its await, and the rest of handleSubmit *)
CommentSubmitSettle(r) ==
  /\ r \in commentReqs /\ r.kind = "add" /\ r.stage = "answered"
  /\ commentReqs' = commentReqs \ {r}
  /\ IF ResponseOk(r.status)
       THEN /\ comments' = LastTwo(Append(comments, r.comment))
            /\ commentsCount' = r.count + 1
            /\ formError' = formError
       ELSE /\ formError' = TRUE
            /\ UNCHANGED <<comments, commentsCount>>
  /\ submitting' = FALSE
  /\ settled' = settled \cup
       {[seq |-> r.rid, status |-> r.status, threw |-> ~ResponseOk(r.status)]}
  /\ UNCHANGED <<serverComments, loadingComments, closureCount,
                 previewMounted, commentSeq, posts>>
  /\ UNCHANGED <<isLiked, isSaved, mutations, alerts, clicks>>
  /\ UNCHANGED serverVars /\ UNCHANGED feedVars /\ UNCHANGED notComment

(* the delete button of a comment shown by CommentList, and                *)
(* handleCommentDelete up to its await                                     *)
CommentDeleteClick(c) ==
  /\ previewMounted
  /\ c \in Elems(SubSeq(comments, 1, Min(PreviewLimit, Len(comments))))
  /\ Len(clicks) < MaxClicks
  /\ commentReqs' = commentReqs \cup
       {NewRequest("delete", c, loadingComments)}
  /\ commentSeq' = commentSeq + 1
  /\ clicks' = Append(clicks, [kind |-> "comment", newState |-> FALSE,
                               overlap |-> FALSE])
  /\ UNCHANGED <<serverComments, comments, loadingComments, commentsCount,
                 closureCount, previewMounted, submitting, formError, posts>>
  /\ UNCHANGED <<isLiked, isSaved, mutations, alerts, settled>>
  /\ UNCHANGED serverVars /\ UNCHANGED feedVars /\ UNCHANGED notComment

(* handleCommentDelete after its await, then the lazy-loading effect of    *)
(* the render that follows a changed comments_count                        *)
CommentDeleteSettle(r) ==
  /\ r \in commentReqs /\ r.kind = "delete" /\ r.stage = "answered"
  /\ IF ResponseOk(r.status)
       THEN LET newComments == Without(comments, r.comment)
                newCount == Max(0, r.count - 1)
                effect == /\ newCount # commentsCount
                          /\ newCount > 0 /\ Len(newComments) = 0
                          /\ ~loadingComments
            IN /\ comments' = newComments
               /\ commentsCount' = newCount
               /\ LoadComments(r.closureLoading /\ ~effect,
                               commentReqs \ {r})
               /\ closureCount' =
                    Captured(loadingComments \/ ~r.closureLoading \/ effect,
                             newCount)
               /\ alerts' = alerts
       ELSE /\ alerts' = alerts + 1
            /\ commentReqs' = commentReqs \ {r}
            /\ UNCHANGED <<comments, commentsCount, loadingComments,
                           closureCount, commentSeq>>
  /\ settled' = settled \cup
       {[seq |-> r.rid, status |-> r.status, threw |-> ~ResponseOk(r.status)]}
  /\ UNCHANGED <<serverComments, previewMounted, submitting, formError,
                 posts>>
  /\ UNCHANGED <<isLiked, isSaved, mutations, clicks>>
  /\ UNCHANGED serverVars /\ UNCHANGED feedVars /\ UNCHANGED notComment

(* ----------------------- comments specification ------------------------ *)
InitComments ==
  /\ serverPosts = <<2, 1>>
  /\ signedIn = TRUE
  /\ likes = {} /\ saves = {} /\ otherLikes = 0
  /\ posts = ServerPage(0, Limit)
  /\ FeedAtRest
  /\ isLiked = FALSE /\ isSaved = FALSE /\ mutations = {} /\ alerts = 0
  /\ clicks = <<>> /\ settled = {}
  /\ follows = {} /\ isFollowing = FALSE /\ isLoading = FALSE
  /\ followReqs = {}
  /\ \E n \in 0..MaxComments :
       /\ serverComments = [i \in 1..n |-> i]
       /\ commentsCount = n
       /\ closureCount = n
  /\ comments = <<>>
  /\ loadingComments = FALSE
  /\ previewMounted = FALSE
  /\ submitting = FALSE /\ formError = FALSE
  /\ commentReqs = {} /\ commentSeq = 0
  /\ selectedPostId = NoPost /\ isModalOpen = FALSE /\ closeTimers = 0
  /\ modalInst = 0 /\ isDeleteDialogOpen = FALSE /\ isDeleting = FALSE
  /\ deleteReqs = {} /\ nOpens = 0 /\ deleteSeq = 0
  /\ MoreAtRest

NextComments ==
  \/ PreviewEffect
  \/ CommentSubmit
  \/ \E c \in Elems(comments) : CommentDeleteClick(c)
  \/ \E c \in Elems(serverComments) : DeleteElsewhere(c)
  \/ \E r \in commentReqs : CommentsGET(r)
  \/ \E r \in commentReqs : CommentsPOST(r)
  \/ \E r \in commentReqs : CommentsDELETE(r)
  \/ \E r \in commentReqs : CommentFetchFails(r)
  \/ \E r \in commentReqs : LoadCommentsSettle(r)
  \/ \E r \in commentReqs : CommentSubmitSettle(r)
  \/ \E r \in commentReqs : CommentDeleteSettle(r)

SpecComments == InitComments /\ [][NextComments]_vars

(* -------------------- comment form specification ----------------------- *)
InitForm == InitComments /\ Len(serverComments) <= 1

NextForm ==
  \/ PreviewEffect
  \/ \E content \in Contents : HandleSubmit(content)
  \/ \E r \in commentReqs : CommentsGET(r)
  \/ \E r \in commentReqs : CommentsPOST(r)
  \/ \E r \in commentReqs : CommentFetchFails(r)
  \/ \E r \in commentReqs : LoadCommentsSettle(r)
  \/ \E r \in commentReqs : CommentSubmitSettle(r)

SpecForm == InitForm /\ [][NextForm]_vars

(* ------------------------ PostFeed detail modal ------------------------ *)
FeedIds == {posts[i].id : i \in 1..Len(posts)}

(* posts.findIndex((p) => p.id === id), the id being in the list *)
IndexOf(id) == CHOOSE k \in 1..Len(posts) : posts[k].id = id

(* the modal-side state after a render with the given selection: PostModal *)
(* is unmounted when nothing is selected, and a new instance starts with   *)
(* its dialog closed                                                       *)
Rendered(sel, dialogOpen, deleting) ==
  IF sel = NoPost \/ selectedPostId = NoPost
    THEN [dialogOpen |-> FALSE, deleting |-> FALSE]
    ELSE [dialogOpen |-> dialogOpen, deleting |-> deleting]

(* handleImageClick / handleComment of a card *)
HandleImageClick(id) ==
  /\ ~isModalOpen
  /\ id \in FeedIds
  /\ nOpens < MaxOpens
  /\ selectedPostId' = id
  /\ isModalOpen' = TRUE
  /\ nOpens' = nOpens + 1
  /\ modalInst' = IF selectedPostId = NoPost THEN modalInst + 1 ELSE modalInst
  /\ LET r == Rendered(id, isDeleteDialogOpen, isDeleting)
     IN isDeleteDialogOpen' = r.dialogOpen /\ isDeleting' = r.deleting
  /\ UNCHANGED <<closeTimers, deleteReqs, deleteSeq, posts>>
  /\ UNCHANGED serverVars /\ UNCHANGED feedVars /\ UNCHANGED cardVars
  /\ UNCHANGED notModal

(* handleModalClose: the modal asks to be closed *)
HandleModalClose ==
  /\ isModalOpen
  /\ isModalOpen' = FALSE
  /\ closeTimers' = closeTimers + 1
  /\ UNCHANGED <<selectedPostId, modalInst, isDeleteDialogOpen, isDeleting,
                 deleteReqs, nOpens, deleteSeq, posts>>
  /\ UNCHANGED serverVars /\ UNCHANGED feedVars /\ UNCHANGED cardVars
  /\ UNCHANGED notModal

(* the 200 ms timeout of handleModalClose fires *)
CloseTimerFires ==
  /\ closeTimers > 0
  /\ closeTimers' = closeTimers - 1
  /\ selectedPostId' = NoPost
  /\ isDeleteDialogOpen' = FALSE /\ isDeleting' = FALSE
  /\ UNCHANGED <<isModalOpen, modalInst, deleteReqs, nOpens, deleteSeq, posts>>
  /\ UNCHANGED serverVars /\ UNCHANGED feedVars /\ UNCHANGED cardVars
  /\ UNCHANGED notModal

(* handlePrevious *)
HandlePrevious ==
  /\ isModalOpen
  /\ selectedPostId \in FeedIds
  /\ IndexOf(selectedPostId) > 1
  /\ selectedPostId' = posts[IndexOf(selectedPostId) - 1].id
  /\ UNCHANGED <<isModalOpen, closeTimers, modalInst, isDeleteDialogOpen,
                 isDeleting, deleteReqs, nOpens, deleteSeq, posts>>
  /\ UNCHANGED serverVars /\ UNCHANGED feedVars /\ UNCHANGED cardVars
  /\ UNCHANGED notModal

(* handleNext *)
HandleNext ==
  /\ isModalOpen
  /\ selectedPostId \in FeedIds
  /\ IndexOf(selectedPostId) < Len(posts)
  /\ selectedPostId' = posts[IndexOf(selectedPostId) + 1].id
  /\ UNCHANGED <<isModalOpen, closeTimers, modalInst, isDeleteDialogOpen,
                 isDeleting, deleteReqs, nOpens, deleteSeq, posts>>
  /\ UNCHANGED serverVars /\ UNCHANGED feedVars /\ UNCHANGED cardVars
  /\ UNCHANGED notModal

(* the delete item of the modal's PostMenu (owner only), and the dialog's  *)
(* cancel: onOpenChange of DeletePostDialog                                *)
SetIsDeleteDialogOpen(open) ==
  /\ isModalOpen
  /\ selectedPostId \in FeedIds \cap OwnPosts
  /\ isDeleteDialogOpen = ~open
  /\ isDeleteDialogOpen' = open
  /\ UNCHANGED <<selectedPostId, isModalOpen, closeTimers, modalInst,
                 isDeleting, deleteReqs, nOpens, deleteSeq, posts>>
  /\ UNCHANGED serverVars /\ UNCHANGED feedVars /\ UNCHANGED cardVars
  /\ UNCHANGED notModal

(* DeletePostDialog.handleDelete up to its await *)
HandleDelete ==
  /\ selectedPostId \in FeedIds
  /\ isDeleteDialogOpen
  /\ ~isDeleting
  /\ deleteSeq < MaxDeletes
  /\ isDeleting' = TRUE
  /\ deleteReqs' = deleteReqs \cup
       {[rid |-> deleteSeq + 1, postId |-> selectedPostId,
         closureSelected |-> selectedPostId, inst |-> modalInst,
         stage |-> "sent", status |-> 0]}
  /\ deleteSeq' = deleteSeq + 1
  /\ UNCHANGED <<selectedPostId, isModalOpen, closeTimers, modalInst,
                 isDeleteDialogOpen, nOpens, posts>>
  /\ UNCHANGED serverVars /\ UNCHANGED feedVars /\ UNCHANGED cardVars
  /\ UNCHANGED notModal

(* DELETE /api/posts/{postId} without the ownership check *)
PostDeleteStatusNoOwner(postId, deleteError) ==
  IF ~signedIn THEN 401
  ELSE IF postId \notin Elems(serverPosts) THEN 404
  ELSE IF deleteError THEN 500
  ELSE 200

(* DELETE /api/posts/{postId}: the status answered for a post *)
PostDeleteStatus(postId, deleteError) ==
  IF ~signedIn THEN 401
  ELSE IF postId \notin Elems(serverPosts) THEN 404
  ELSE IF postId \notin OwnPosts THEN 403
  ELSE IF deleteError THEN 500
  ELSE 200

(* DELETE /api/posts/{postId} *)
PostDELETE(d) ==
  /\ d \in deleteReqs /\ d.stage = "sent"
  /\ \E storageError \in BOOLEAN, deleteError \in BOOLEAN :
       LET status == PostDeleteStatus(d.postId, deleteError)
           authorized == status \in {200, 500}
       IN /\ serverMedia' = IF authorized /\ ~storageError
                              THEN serverMedia \ {d.postId}
                              ELSE serverMedia
          /\ serverPosts' = IF status = 200
                              THEN Without(serverPosts, d.postId)
                              ELSE serverPosts
          /\ deleteReqs' = (deleteReqs \ {d}) \cup
               {[d EXCEPT !.stage = "answered", !.status = status]}
  /\ UNCHANGED <<likes, saves, otherLikes, signedIn>>
  /\ UNCHANGED <<selectedPostId, isModalOpen, closeTimers, modalInst,
                 isDeleteDialogOpen, isDeleting, nOpens, deleteSeq, posts>>
  /\ UNCHANGED feedVars /\ UNCHANGED cardVars /\ UNCHANGED notMedia

(* fetch() rejects: the delete request or its response is lost *)
DeleteFetchFails(d) ==
  /\ d \in deleteReqs
  /\ d.stage = "sent" \/ d.status # 0
  /\ deleteReqs' = (deleteReqs \ {d}) \cup
       {[d EXCEPT !.stage = "answered", !.status = 0]}
  /\ UNCHANGED <<selectedPostId, isModalOpen, closeTimers, modalInst,
                 isDeleteDialogOpen, isDeleting, nOpens, deleteSeq, posts>>
  /\ UNCHANGED serverVars /\ UNCHANGED feedVars /\ UNCHANGED cardVars
  /\ UNCHANGED notModal

(* handlePostDelete that never closes the modal *)
HandlePostDeleteKeepsModal(postId, closureSelected) ==
  [posts |-> SelectSeq(posts, LAMBDA p : p.id # postId), closes |-> FALSE]

(* handlePostDelete of the closure that holds closureSelected: the list it *)
(* leaves, and whether it closes the modal and clears the selection        *)
HandlePostDelete(postId, closureSelected) ==
  [posts |-> SelectSeq(posts, LAMBDA p : p.id # postId),
   closes |-> closureSelected = postId]

(* DeletePostDialog.handleDelete after its await; on success the dialog is *)
(* closed, onDelete runs handlePostDelete and then handleModalClose        *)
HandleDeleteSettle(d) ==
  /\ d \in deleteReqs /\ d.stage = "answered"
  /\ deleteReqs' = deleteReqs \ {d}
  /\ LET same == d.inst = modalInst /\ selectedPostId # NoPost
     IN IF ResponseOk(d.status)
          THEN LET h == HandlePostDelete(d.postId, d.closureSelected)
                   sel == IF h.closes THEN NoPost ELSE selectedPostId
                   r == Rendered(sel,
                                 IF same THEN FALSE ELSE isDeleteDialogOpen,
                                 IF same THEN FALSE ELSE isDeleting)
               IN /\ posts' = h.posts
                  /\ selectedPostId' = sel
                  /\ isModalOpen' = FALSE
                  /\ closeTimers' = closeTimers + 1
                  /\ isDeleteDialogOpen' = r.dialogOpen
                  /\ isDeleting' = r.deleting
                  /\ alerts' = alerts
          ELSE /\ alerts' = alerts + 1
               /\ isDeleting' = IF same THEN FALSE ELSE isDeleting
               /\ UNCHANGED <<posts, selectedPostId, isModalOpen, closeTimers,
                              isDeleteDialogOpen>>
  /\ UNCHANGED <<modalInst, nOpens, deleteSeq>>
  /\ UNCHANGED <<isLiked, isSaved, mutations, clicks, settled>>
  /\ UNCHANGED serverVars /\ UNCHANGED feedVars /\ UNCHANGED notModal

(* ------------------------- modal specification ------------------------- *)
InitModal ==
  /\ serverPosts = <<3, 2, 1>>
  /\ signedIn = TRUE
  /\ likes = {} /\ saves = {} /\ otherLikes = 0
  /\ posts = ServerPage(0, Limit)
  /\ FeedAtRest
  /\ isLiked = FALSE /\ isSaved = FALSE /\ mutations = {} /\ alerts = 0
  /\ clicks = <<>> /\ settled = {}
  /\ follows = {} /\ isFollowing = FALSE /\ isLoading = FALSE
  /\ followReqs = {}
  /\ serverComments = <<>> /\ comments = <<>> /\ loadingComments = FALSE
  /\ commentsCount = 0 /\ closureCount = 0 /\ previewMounted = TRUE
  /\ submitting = FALSE /\ formError = FALSE
  /\ commentReqs = {} /\ commentSeq = 0
  /\ selectedPostId = NoPost /\ isModalOpen = FALSE /\ closeTimers = 0
  /\ modalInst = 0 /\ isDeleteDialogOpen = FALSE /\ isDeleting = FALSE
  /\ deleteReqs = {} /\ nOpens = 0 /\ deleteSeq = 0
  /\ MoreAtRest

NextModal ==
  \/ \E id \in FeedIds : HandleImageClick(id)
  \/ HandleModalClose
  \/ CloseTimerFires
  \/ HandlePrevious
  \/ HandleNext
  \/ \E open \in BOOLEAN : SetIsDeleteDialogOpen(open)
  \/ HandleDelete
  \/ \E d \in deleteReqs : PostDELETE(d)
  \/ \E d \in deleteReqs : DeleteFetchFails(d)
  \/ \E d \in deleteReqs : HandleDeleteSettle(d)

SpecModal == InitModal /\ [][NextModal]_vars

(* ---------------- card and follow button, one viewer ------------------- *)
InitRelations ==
  /\ serverPosts = <<2, 1>>
  /\ signedIn = TRUE
  /\ likes = {} /\ saves = {} /\ otherLikes = 0
  /\ posts = ServerPage(0, Limit)
  /\ FeedAtRest
  /\ isLiked = FALSE /\ isSaved = FALSE
  /\ mutations = {} /\ alerts = 0 /\ clicks = <<>> /\ settled = {}
  /\ follows \in SUBSET {Target}
  /\ isFollowing \in {Target \in follows, FALSE}
  /\ isLoading = FALSE
  /\ followReqs = {}
  /\ serverComments = <<>> /\ comments = <<>> /\ loadingComments = FALSE
  /\ commentsCount = 0 /\ closureCount = 0 /\ previewMounted = TRUE
  /\ submitting = FALSE /\ formError = FALSE
  /\ commentReqs = {} /\ commentSeq = 0
  /\ selectedPostId = NoPost /\ isModalOpen = FALSE /\ closeTimers = 0
  /\ modalInst = 0 /\ isDeleteDialogOpen = FALSE /\ isDeleting = FALSE
  /\ deleteReqs = {} /\ nOpens = 0 /\ deleteSeq = 0
  /\ MoreAtRest

NextRelations == NextCard \/ NextFollow

SpecRelations == InitRelations /\ [][NextRelations]_vars

(* ------------------- components at rest (idle values) ----------------- *)
CardAtRest ==
  /\ isLiked = FALSE /\ isSaved = FALSE
  /\ mutations = {} /\ alerts = 0 /\ clicks = <<>> /\ settled = {}

FollowAtRest ==
  /\ follows = {} /\ isFollowing = FALSE /\ isLoading = FALSE
  /\ followReqs = {}

CommentsAtRest ==
  /\ serverComments = <<>> /\ comments = <<>> /\ loadingComments = FALSE
  /\ commentsCount = 0 /\ closureCount = 0 /\ previewMounted = TRUE
  /\ submitting = FALSE /\ formError = FALSE
  /\ commentReqs = {} /\ commentSeq = 0

ModalAtRest ==
  /\ selectedPostId = NoPost /\ isModalOpen = FALSE /\ closeTimers = 0
  /\ modalInst = 0 /\ isDeleteDialogOpen = FALSE /\ isDeleting = FALSE
  /\ deleteReqs = {} /\ nOpens = 0 /\ deleteSeq = 0

(* --------------------- PostModal comment loading ----------------------- *)
(* the values the open effect of PostModal depends on, as now rendered *)
CurrentDeps ==
  [open |-> isModalOpen, postId |-> selectedPostId, inst |-> modalInst]

(* a render has changed the dependencies and the effect has not run yet *)
EffectPending == effectDeps # CurrentDeps

(* the PostModal instance that made request r is still mounted *)
Mounted(r) == r.inst = modalInst /\ selectedPostId # NoPost

(* the open effect of PostModal together with loadComments up to its       *)
(* await; an unmounted PostModal loses its state, a new one starts empty   *)
ModalEffect ==
  /\ EffectPending
  /\ effectDeps' = CurrentDeps
  /\ LET fresh == effectDeps.inst # modalInst
         ref == IF fresh THEN FALSE ELSE modalRef
         shown == IF fresh THEN NoPost ELSE modalComments
     IN IF selectedPostId = NoPost
          THEN /\ modalComments' = NoPost
               /\ modalRef' = FALSE
               /\ UNCHANGED <<modalLoads, loadSeq>>
          ELSE IF ~isModalOpen
            THEN /\ modalComments' = NoPost
                 /\ modalRef' = FALSE
                 /\ UNCHANGED <<modalLoads, loadSeq>>
            ELSE IF ref
              THEN /\ modalComments' = shown
                   /\ modalRef' = TRUE
                   /\ UNCHANGED <<modalLoads, loadSeq>>
              ELSE /\ loadSeq < MaxLoads
                   /\ modalComments' = shown
                   /\ modalRef' = TRUE
                   /\ loadSeq' = loadSeq + 1
                   /\ modalLoads' = modalLoads \cup
                        {[rid |-> loadSeq + 1, postId |-> selectedPostId,
                          inst |-> modalInst, stage |-> "sent",
                          status |-> 0, timedOut |-> FALSE]}
  /\ UNCHANGED posts
  /\ UNCHANGED serverVars /\ UNCHANGED feedVars /\ UNCHANGED cardVars
  /\ UNCHANGED modalVars /\ UNCHANGED notDetail

(* GET /api/comments?postId answers a load of PostModal, or the fetch is   *)
(* rejected                                                                *)
ModalCommentsGET(r) ==
  /\ r \in modalLoads /\ r.stage = "sent"
  /\ \E status \in {200, 500, 0} :
       modalLoads' = (modalLoads \ {r}) \cup
         {[r EXCEPT !.stage = "answered", !.status = status]}
  /\ UNCHANGED <<modalComments, modalRef, loadSeq, effectDeps, posts>>
  /\ UNCHANGED serverVars /\ UNCHANGED feedVars /\ UNCHANGED cardVars
  /\ UNCHANGED modalVars /\ UNCHANGED notDetail

(* the 10 s timeout of loadComments fires before the fetch has settled *)
ModalLoadTimeout(r) ==
  /\ r \in modalLoads /\ ~r.timedOut
  /\ modalLoads' = (modalLoads \ {r}) \cup {[r EXCEPT !.timedOut = TRUE]}
  /\ IF Mounted(r)
       THEN modalComments' = NoPost /\ modalRef' = FALSE
       ELSE UNCHANGED <<modalComments, modalRef>>
  /\ settled' = settled \cup {[seq |-> r.rid, status |-> 0, threw |-> TRUE]}
  /\ UNCHANGED <<loadSeq, effectDeps, posts>>
  /\ UNCHANGED <<isLiked, isSaved, mutations, alerts, clicks>>
  /\ UNCHANGED serverVars /\ UNCHANGED feedVars
  /\ UNCHANGED modalVars /\ UNCHANGED notDetail

(* loadComments of PostModal after its await: try / catch / finally *)
ModalLoadSettle(r) ==
  /\ r \in modalLoads /\ r.stage = "answered"
  /\ modalLoads' = modalLoads \ {r}
  /\ IF Mounted(r)
       THEN /\ modalComments' = IF r.status = 200 THEN r.postId ELSE NoPost
            /\ modalRef' = FALSE
       ELSE UNCHANGED <<modalComments, modalRef>>
  /\ settled' = settled \cup
       {[seq |-> r.rid, status |-> r.status, threw |-> r.status # 200]}
  /\ UNCHANGED <<loadSeq, effectDeps, posts>>
  /\ UNCHANGED <<isLiked, isSaved, mutations, alerts, clicks>>
  /\ UNCHANGED serverVars /\ UNCHANGED feedVars
  /\ UNCHANGED modalVars /\ UNCHANGED notDetail

(* every post of the feed has comments of its own; React runs the pending  *)
(* effect before it handles the next event                                 *)
InitDetail == InitModal

NextDetail ==
  \/ ModalEffect
  \/ ~EffectPending /\ \E id \in FeedIds : HandleImageClick(id)
  \/ ~EffectPending /\ HandleModalClose
  \/ ~EffectPending /\ CloseTimerFires
  \/ ~EffectPending /\ HandlePrevious
  \/ ~EffectPending /\ HandleNext
  \/ \E r \in modalLoads : ModalCommentsGET(r)
  \/ \E r \in modalLoads : ModalLoadTimeout(r)
  \/ \E r \in modalLoads : ModalLoadSettle(r)

SpecDetail == InitDetail /\ [][NextDetail]_vars

(* --------------------- delete endpoints, any caller -------------------- *)
(* a client other than the pages sends DELETE /api/posts/{postId} *)
RequestPostDelete(postId) ==
  /\ deleteSeq < MaxDeletes
  /\ deleteReqs' = deleteReqs \cup
       {[rid |-> deleteSeq + 1, postId |-> postId,
         closureSelected |-> NoPost, inst |-> 0,
         stage |-> "sent", status |-> 0]}
  /\ deleteSeq' = deleteSeq + 1
  /\ UNCHANGED <<selectedPostId, isModalOpen, closeTimers, modalInst,
                 isDeleteDialogOpen, isDeleting, nOpens, posts>>
  /\ UNCHANGED serverVars /\ UNCHANGED feedVars /\ UNCHANGED cardVars
  /\ UNCHANGED notModal

(* a client other than the pages sends DELETE /api/comments?commentId *)
RequestCommentDelete(commentId) ==
  /\ commentSeq < MaxDeletes
  /\ commentReqs' = commentReqs \cup {NewRequest("delete", commentId, FALSE)}
  /\ commentSeq' = commentSeq + 1
  /\ UNCHANGED <<serverComments, comments, loadingComments, commentsCount,
                 closureCount, previewMounted, submitting, formError, posts>>
  /\ UNCHANGED serverVars /\ UNCHANGED feedVars /\ UNCHANGED cardVars
  /\ UNCHANGED notComment

(* posts 1 and 2 and comment 1 are the caller's, post 3 and comment -1 are *)
(* another user's                                                          *)
InitApi ==
  /\ serverPosts = <<3, 2, 1>>
  /\ signedIn \in BOOLEAN
  /\ likes = {} /\ saves = {} /\ otherLikes = 0
  /\ posts = <<>>
  /\ FeedAtRest /\ CardAtRest /\ FollowAtRest /\ ModalAtRest /\ MoreAtRest
  /\ serverComments = <<-1, 1>>
  /\ comments = <<>> /\ loadingComments = FALSE
  /\ commentsCount = 2 /\ closureCount = 2 /\ previewMounted = FALSE
  /\ submitting = FALSE /\ formError = FALSE
  /\ commentReqs = {} /\ commentSeq = 0

NextApi ==
  \/ \E postId \in {1, 3} : RequestPostDelete(postId)
  \/ \E commentId \in {-1, 1} : RequestCommentDelete(commentId)
  \/ \E d \in deleteReqs : PostDELETE(d)
  \/ \E r \in commentReqs : CommentsDELETE(r)

SpecApi == InitApi /\ [][NextApi]_vars

(* -------------------- PostFeed list updates (patch) -------------------- *)
(* { ...p, ...updates } *)
Merge(p, updates) ==
  [f \in DOMAIN p \cup DOMAIN updates |->
     IF f \in DOMAIN updates THEN updates[f] ELSE p[f]]

(* handlePostUpdate that adds the item when the id is absent *)
HandlePostUpdateUpserts(prev, postId, updates) ==
  IF \E i \in 1..Len(prev) : prev[i].id = postId
    THEN [i \in 1..Len(prev) |->
            IF prev[i].id = postId THEN Merge(prev[i], updates) ELSE prev[i]]
    ELSE Append(prev, Merge([id |-> postId], updates))

(* handlePostUpdate: prev.map(p => p.id === postId ? {...p, ...updates} : p) *)
HandlePostUpdate(prev, postId, updates) ==
  [i \in 1..Len(prev) |->
     IF prev[i].id = postId THEN Merge(prev[i], updates) ELSE prev[i]]

(* the count values the callers pass *)
Counts == {0, 1}
Captions == {"a", "b"}
PatchIds == 1..(PatchPosts + 1)

(* a PostWithStats of the list, with the fields the callers update *)
FullPost(id, nLikes, nComments, caption) ==
  [id |-> id, likes_count |-> nLikes, comments_count |-> nComments,
   caption |-> caption]

(* the updates the callers pass for a post: comments_count (PostCard,      *)
(* PostModal), likes_count (PostModal), and the whole edited post          *)
Updates(postId) ==
  {[comments_count |-> n] : n \in Counts}
  \cup {[likes_count |-> n] : n \in Counts}
  \cup {FullPost(postId, n, m, c) : n \in Counts, m \in Counts, c \in Captions}

(* onPostUpdate(postId, updates) reaches PostFeed *)
PostUpdate(postId, updates) ==
  /\ posts' = HandlePostUpdate(posts, postId, updates)
  /\ UNCHANGED serverVars /\ UNCHANGED feedVars /\ UNCHANGED cardVars
  /\ UNCHANGED extraVars

(* onLike(postId, isLiked) reaches PostFeed *)
PostLike(postId, liked) ==
  /\ \A i \in 1..Len(posts) :
       posts[i].id = postId /\ liked => posts[i].likes_count + 1 \in Counts
  /\ posts' = HandleLike(posts, postId, liked)
  /\ UNCHANGED serverVars /\ UNCHANGED feedVars /\ UNCHANGED cardVars
  /\ UNCHANGED extraVars

(* onPostDelete(postId) reaches PostFeed while no modal is open *)
PostRemove(postId) ==
  /\ posts' = HandlePostDelete(postId, selectedPostId).posts
  /\ UNCHANGED serverVars /\ UNCHANGED feedVars /\ UNCHANGED cardVars
  /\ UNCHANGED extraVars

InitPatch ==
  /\ \E n \in 0..PatchPosts :
       /\ serverPosts = Descending(n)
       /\ posts = [i \in 1..n |-> FullPost(serverPosts[i], 0, 0, "a")]
  /\ signedIn = TRUE
  /\ likes = {} /\ saves = {} /\ otherLikes = 0
  /\ FeedAtRest /\ CardAtRest /\ FollowAtRest /\ CommentsAtRest
  /\ ModalAtRest /\ MoreAtRest

NextPatch ==
  \/ \E postId \in PatchIds : \E updates \in Updates(postId) :
       PostUpdate(postId, updates)
  \/ \E postId \in PatchIds : \E liked \in BOOLEAN : PostLike(postId, liked)
  \/ \E postId \in PatchIds : PostRemove(postId)

SpecPatch == InitPatch /\ [][NextPatch]_vars

(* ------------------------ claims on the feed --------------------------- *)
IdSet(page) == {page[i].id : i \in 1..Len(page)}

(* C3: the feed list holds each post identity at most once, for every      *)
(* sequence of page loads appended to it.                                  *)
C3_NoDuplicateIdentity ==
  \A i, j \in 1..Len(posts) : posts[i].id = posts[j].id => i = j

(* a scroll session of mount and sentinel loads only, all successful, over *)
(* an unchanging server data set                                           *)
CleanSession ==
  /\ nInserted = 0
  /\ ~sentinelFailed
  /\ error = NoError
  /\ \A i \in 1..Len(issued) : issued[i].origin \in {"mount", "sentinel"}

(* C4: in a clean scroll session the loads request offsets 0, 10, 20, ...  *)
(* and, once hasMore is false, the list is exactly the server's items,     *)
(* each once, newest first.                                                *)
C4_ScrollSessionLoadsAll ==
  (mounted /\ CleanSession /\ fetches = {} /\ ~hasMore) =>
     /\ \A i \in 1..Len(issued) : issued[i].offset = (i - 1) * OffsetStep
     /\ Ids(posts) = serverPosts

(* C5: two consecutive pages (offset k, then offset k + limit) of a scroll *)
(* session share no item and skip no item lying between them, also when    *)
(* posts are inserted on the server between the two fetches.               *)
C5_ConsecutivePagesDisjoint ==
  \A i \in 1..(Len(pages) - 1) :
    LET p == pages[i]
        q == pages[i + 1]
    IN (q.offset = p.offset + Limit /\ Len(p.page) > 0 /\ Len(q.page) > 0) =>
         /\ IdSet(p.page) \cap IdSet(q.page) = {}
         /\ ~\E x \in 1..NumPosts :
               x < p.page[Len(p.page)].id /\ x > q.page[1].id

(* C9: no page fetch is issued while another one is pending, however often *)
(* the sentinel fires: at most one request is in flight.                   *)
C9_OneFetchAtATime ==
  /\ Cardinality(fetches) <= 1
  /\ \A i \in 1..Len(issued) : ~issued[i].pending

(* the sentinel fired while a fetch was pending, and that fetch still is *)
C9_Witness ==
  /\ "sentinel" \in skipped
  /\ Cardinality(fetches) = 1
  /\ loadingRef

(* C10: after a sentinel-triggered fetch has settled, every further fetch   *)
(* is one the user asked for (retry button or refresh).                    *)
C10_NoAutoRetry ==
  \A i \in 1..Len(issued) :
    issued[i].afterFailure => issued[i].origin \in {"retry", "refresh"}

(* fetch call i has settled without bringing a page *)
Failed(i) ==
  /\ \A r \in fetches : r.rid # i
  /\ \A j \in 1..Len(pages) : pages[j].rid # i

(* C24: when a sentinel-triggered fetch for offset k has failed and the    *)
(* next fetch is issued by the sentinel too, that fetch requests offset k. *)
C24_SentinelRetriesSameOffset ==
  \A i \in 1..(Len(issued) - 1) :
    (/\ issued[i].origin = "sentinel"
     /\ Failed(i)
     /\ issued[i + 1].origin = "sentinel") =>
       issued[i + 1].offset = issued[i].offset

(* C28: over an unchanging server data set, every fetch succeeding and the *)
(* sentinel coming into view after each load, the feed reaches hasMore =   *)
(* false with nothing in flight and stays there, and no fetch is issued    *)
(* once hasMore is false; the data set may be an exact multiple of the     *)
(* page size.                                                              *)
C28_ScrollTerminates ==
  /\ <>[](~hasMore /\ fetches = {} /\ ~loading)
  /\ [][~hasMore => issued' = issued]_vars

(* the end of a feed of exactly two pages has been reached *)
C28_Witness ==
  /\ Len(serverPosts) = 2 * Limit
  /\ ~hasMore /\ fetches = {} /\ ~loading
  /\ Len(pages) > 0 /\ Len(pages[Len(pages)].page) = 0

(* the step runs the continuation of loadPosts for request r *)
FetchSettles(r) == r.stage = "answered" /\ r \notin fetches'

(* C11: when a page fetch fails, the list is what it was when loadPosts    *)
(* was called for that fetch (refreshFeed having emptied it by then), an   *)
(* error is set and hasMore is left alone; an empty page sets hasMore to   *)
(* false and sets no error.                                                *)
C11_FailedFetchKeepsList ==
  [][\A r \in fetches :
       FetchSettles(r) =>
          /\ r.status # 200 =>
                (posts' = r.before /\ error' # NoError /\ hasMore' = hasMore)
          /\ (r.status = 200 /\ Len(r.page) = 0) =>
                (error' = NoError /\ ~hasMore')]_vars

(* C12: when a fetch settles successfully after refreshFeed was called and *)
(* no fetch is pending any more, the list is exactly the page of offset 0  *)
(* that this fetch brought.                                                *)
C12_RefreshReplacesAll ==
  [][\A r \in fetches :
       (FetchSettles(r) /\ refreshAsked /\ r.status = 200 /\ fetches' = {}) =>
          /\ r.offset = 0
          /\ posts' = r.page]_vars

(* C20: a page answered 200 carries hasMore = (its length = limit), and    *)
(* when loadPosts has handled it the hasMore state is that same value; an  *)
(* empty page gives hasMore = FALSE in the response and in the state.      *)
C20_HasMoreIffFullPage ==
  [][\A r \in fetches :
       (FetchSettles(r) /\ r.status = 200) =>
          /\ r.pageHasMore = (Len(r.page) = Limit)
          /\ hasMore' = (Len(r.page) = Limit)
          /\ Len(r.page) = 0 => (~r.pageHasMore /\ ~hasMore')]_vars

(* a full page, a short page or none, and then an empty page were handled  *)
C20_Witness ==
  /\ fetches = {}
  /\ Len(pages) >= 2
  /\ Len(pages[1].page) = Limit
  /\ Len(pages[Len(pages)].page) = 0
  /\ ~hasMore

(* ------------------------ claims on the card --------------------------- *)
(* the step is the like button's click handler *)
LikeClickStep ==
  /\ Len(clicks') = Len(clicks) + 1
  /\ clicks'[Len(clicks')].kind = "like"

(* the step settles request m (its continuation after the await runs) *)
Settles(m) ==
  /\ m.stage = "answered"
  /\ \A n \in mutations' : n.seq # m.seq

(* a later click on the same button has superseded request m *)
Superseded(m) ==
  \E i \in (m.seq + 1)..Len(clicks) : clicks[i].kind = m.kind

(* C1: handling the response of a like or save request that a newer click  *)
(* on the same button has superseded leaves the liked / saved flag as the  *)
(* newer click set it.                                                     *)
C1_StaleResponseDiscarded ==
  [][\A m \in mutations :
       (Settles(m) /\ Superseded(m)) =>
          /\ m.kind = "like" => isLiked' = isLiked
          /\ m.kind = "save" => isSaved' = isSaved]_vars

(* C2: save then unsave clicked before the first call settled: once both   *)
(* calls have settled (neither failing), the card and the server both say  *)
(* unsaved.                                                                *)
C2_LastIntentWins ==
  ( /\ Len(clicks) = 2
    /\ clicks[1] = [kind |-> "save", newState |-> TRUE, overlap |-> FALSE]
    /\ clicks[2] = [kind |-> "save", newState |-> FALSE, overlap |-> TRUE]
    /\ mutations = {}
    /\ \A s \in settled : ~s.threw ) =>
       /\ isSaved = FALSE
       /\ CardPost \notin saves

(* no other like click happened between the click of m and now *)
Isolated(m) ==
  /\ ~m.overlap
  /\ \A i \in (m.seq + 1)..Len(clicks) : clicks[i].kind # "like"

(* C6: when the call of a like toggle fails with a non-conflict error, the *)
(* liked flag is back at its value from before the toggle, and so is the   *)
(* like count (no other like toggle having been made meanwhile).           *)
C6_RollbackRestores ==
  [][\A m \in mutations :
       (Settles(m) /\ m.kind = "like" /\ Throws(m.newState, m.status)) =>
          /\ isLiked' = m.prevFlag
          /\ Isolated(m) => LikesCount' = m.prevCount]_vars

(* a single like toggle has failed and was rolled back *)
C6_Witness ==
  /\ Len(clicks) = 1 /\ clicks[1].kind = "like"
  /\ mutations = {}
  /\ \E s \in settled : s.seq = 1 /\ s.threw /\ s.status \in {0, 401, 500}
  /\ isLiked = ~clicks[1].newState

(* C7: a like POST answered 409 leaves the flag, the list and the alerts   *)
(* as the same call answered 201 would: no rollback, no error shown.       *)
C7_ConflictIsSuccess ==
  [][\A m \in mutations :
       (Settles(m) /\ m.kind = "like" /\ m.newState /\ m.status = 409) =>
          /\ isLiked' = LikeOutcome(m, 201).isLiked
          /\ posts' = LikeOutcome(m, 201).posts
          /\ alerts' = alerts
          /\ isLiked' = isLiked]_vars

(* a like POST answered 409 has settled *)
C7_Witness ==
  \E s \in settled :
    /\ s.status = 409 /\ ~s.threw
    /\ clicks[s.seq].kind = "like" /\ clicks[s.seq].newState

LikesInFlight == {m \in mutations : m.kind = "like"}

Abs(n) == IF n < 0 THEN -n ELSE n

(* C16: with no like request in flight the like count the card shows is    *)
(* the server's likes_count of the post (no other user acting); with one   *)
(* in flight the two differ by at most one.                                *)
C16_CountMatchesServer ==
  /\ LikesInFlight = {} => LikesCount = StatLikes(CardPost)
  /\ Cardinality(LikesInFlight) = 1 =>
        Abs(LikesCount - StatLikes(CardPost)) <= 1

(* ---------------------- claims on the follow button -------------------- *)
(* the step settles follow request q *)
FollowSettles(q) ==
  /\ q.stage = "answered"
  /\ \A n \in followReqs' : n.seq # q.seq

(* C13: a follow POST answered 409 leaves the button in the following      *)
(* state and shows no error.                                               *)
C13_FollowConflictIsSuccess ==
  [][\A q \in followReqs :
       (FollowSettles(q) /\ q.newState /\ q.status = 409) =>
          /\ isFollowing' = TRUE
          /\ alerts' = alerts]_vars

(* C15: whenever a like or save request of the card has failed, handling   *)
(* the failure shows an error message to the user.                         *)
C15_FailureIsSurfaced ==
  [][\A m \in mutations :
       (Settles(m) /\ Throws(m.newState, m.status)) =>
          alerts' = alerts + 1]_vars

(* ---------------------- claims on the detail modal --------------------- *)
(* the step runs the continuation of delete request d *)
DeleteSettles(d) ==
  d.stage = "answered" /\ \A e \in deleteReqs' : e.rid # d.rid

(* C17: when the deletion a user confirmed in the detail modal of a post   *)
(* has been answered with success, the post is no longer in the feed list, *)
(* the modal is closed and no post is selected.                            *)
C17_DeleteClosesModal ==
  [][\A d \in deleteReqs :
       (DeleteSettles(d) /\ ResponseOk(d.status)) =>
          /\ d.postId \notin FeedIds'
          /\ ~isModalOpen'
          /\ selectedPostId' = NoPost]_vars

(* a post was deleted from its open modal: gone from the list and the      *)
(* server, modal closed, nothing selected                                  *)
C17_Witness ==
  /\ deleteSeq >= 1 /\ deleteReqs = {}
  /\ Len(posts) < 3 /\ Len(serverPosts) < 3
  /\ ~isModalOpen /\ selectedPostId = NoPost
  /\ alerts = 0

(* ------------------- claims on the stored relations -------------------- *)
(* the server answers request m in this step, and n is the answered m *)
Answers(m, n) ==
  /\ m.stage = "sent"
  /\ n.seq = m.seq /\ n.stage = "answered" /\ n.status # 0

CommentSettles(r) ==
  /\ r.stage = "answered"
  /\ \A n \in commentReqs' : n.rid # r.rid

(* C14: a comment DELETE answered 404 removes the comment from the card's  *)
(* comment list and shows no error.                                        *)
C14_DeleteNotFoundIsSuccess ==
  [][\A r \in commentReqs :
       (CommentSettles(r) /\ r.kind = "delete" /\ r.status = 404) =>
          /\ r.comment \notin Elems(comments')
          /\ alerts' = alerts]_vars

(* the comments CommentList renders on the card *)
Preview(list) == SubSeq(list, 1, Min(PreviewLimit, Len(list)))

(* C19: after a successful preview load, and after a successful comment    *)
(* submit, the card shows the latest two comments the post had when the    *)
(* server answered.                                                        *)
C19_PreviewShowsLatestTwo ==
  [][\A r \in commentReqs :
       (CommentSettles(r) /\ ResponseOk(r.status)
          /\ r.kind \in {"load", "add"}) =>
          Preview(comments') = r.latest]_vars


(* ---------------------- claims on the list updates --------------------- *)
(* item now is item old with exactly the fields of updates replaced *)
Patched(old, now, updates) ==
  /\ DOMAIN now = DOMAIN old \cup DOMAIN updates
  /\ \A f \in DOMAIN now :
       now[f] = IF f \in DOMAIN updates THEN updates[f] ELSE old[f]

(* the frame of one patch: list now is list old after patch(postId, updates) *)
PatchFrame(old, now, postId, updates) ==
  /\ postId \notin IdSet(old) => now = old
  /\ Len(now) = Len(old)
  /\ \A i \in 1..Len(old) :
       /\ old[i].id # postId => now[i] = old[i]
       /\ old[i].id = postId => Patched(old[i], now[i], updates)
  /\ Ids(now) = Ids(old)

(* C21: patching an id that is not in the list leaves the list unchanged;  *)
(* patching a present id keeps the length and the order of the list and    *)
(* every item of another id, and changes only the given fields of the item *)
(* with that id. handleLike changes nothing but likes_count of that item.  *)
C21_PatchFrame ==
  /\ \A postId \in PatchIds : \A updates \in Updates(postId) :
       PatchFrame(posts, HandlePostUpdate(posts, postId, updates), postId,
                  updates)
  /\ \A postId \in PatchIds : \A liked \in BOOLEAN :
       LET now == HandleLike(posts, postId, liked)
       IN /\ Len(now) = Len(posts)
          /\ \A i \in 1..Len(posts) :
               PatchFrame(<<posts[i]>>, <<now[i]>>, postId,
                          [likes_count |-> now[i].likes_count])

(* a list of three in which one post was patched (comments_count and       *)
(* caption) while its neighbours still hold their initial fields           *)
C21_Witness ==
  /\ Len(posts) = 3
  /\ posts[2] = FullPost(2, 0, 1, "b")
  /\ posts[1] = FullPost(3, 0, 0, "a")
  /\ posts[3] = FullPost(1, 0, 0, "a")


(* ---------------------- claims on the comment form --------------------- *)
(* the step is a submission of the given content *)
Submits(content) ==
  /\ Len(clicks') = Len(clicks) + 1
  /\ clicks'[Len(clicks')].kind = "comment"
  /\ clicks'[Len(clicks')].newState
  /\ clicks'[Len(clicks')].content = content

(* C22: a submission whose content is empty after trimming, or longer than *)
(* 1000 characters after trimming, makes no request and changes neither    *)
(* the comments of the card, nor comments_count, nor the feed list, nor    *)
(* the comments on the server.                                             *)
C22_InvalidCommentStaysLocal ==
  [][\A content \in Contents :
       (/\ Submits(content)
        /\ \/ content.core = 0
           \/ content.core > MAX_COMMENT_LENGTH) =>
          /\ commentReqs' = commentReqs
          /\ commentSeq' = commentSeq
          /\ comments' = comments
          /\ commentsCount' = commentsCount
          /\ posts' = posts
          /\ serverComments' = serverComments
          /\ submitting' = submitting]_vars

(* a blank and an over-long comment were submitted after a valid one had   *)
(* been added: one request was made in all                                 *)
C22_Witness ==
  /\ Len(clicks) = 3
  /\ clicks[1].content = Text(1, 1, 1)
  /\ clicks[2].content = Text(1, 0, 0)
  /\ clicks[3].content = Text(0, MAX_COMMENT_LENGTH + 1, 0)
  /\ commentSeq = 1
  /\ commentReqs = {}
  /\ formError


(* ------------------- claims on the delete endpoints -------------------- *)
(* the step is the server answering post-delete request d with status *)
PostDeleteAnswers(d, status) ==
  /\ d.stage = "sent"
  /\ \E e \in deleteReqs' :
       e.rid = d.rid /\ e.stage = "answered" /\ e.status = status

(* C25: when DELETE /api/posts/{id} answers with an error status, it has   *)
(* removed neither a post record nor a stored media file.                  *)
C25_FailedDeleteRemovesNothing ==
  [][\A d \in deleteReqs : \A status \in {401, 403, 404, 500} :
       PostDeleteAnswers(d, status) =>
          /\ serverPosts' = serverPosts
          /\ serverMedia' = serverMedia]_vars

(* the step is the server answering comment-delete request r with status *)
CommentDeleteAnswers(r, status) ==
  /\ r.kind = "delete" /\ r.stage = "sent"
  /\ \E e \in commentReqs' :
       e.rid = r.rid /\ e.stage = "answered" /\ e.status = status

C26_CountGrowsByOne ==
  [][\A r \in commentReqs :
       (CommentSettles(r) /\ r.kind = "add" /\ ResponseOk(r.status)) =>
          commentsCount' = commentsCount + 1]_vars

(* ------------------ claims on the modal's comments --------------------- *)
(* C27: when the modal is open on a post, its effect has run, no comment   *)
(* load is in flight and none has failed or timed out, the comments shown  *)
(* are those of the post the modal displays.                               *)
C27_ModalShowsOwnComments ==
  (/\ isModalOpen /\ selectedPostId # NoPost
   /\ ~EffectPending
   /\ modalLoads = {}
   /\ \A l \in settled : ~l.threw) =>
     modalComments = selectedPostId

(* ------------------- claims on the modal's selection ------------------- *)
(* C29: whenever the modal is open a post is selected.                     *)
C29_OpenModalHasSelection == isModalOpen => selectedPostId # NoPost

(* ----------------------------- search page ----------------------------- *)
(* A query is named by a number: NoQuery is a text whose trim() is empty,  *)
(* the others are distinct non-empty texts.  searchType stays "all".  The  *)
(* navigation started by router.replace is taken to land before the query  *)
(* changes again, so that the URL effect finds urlQuery equal to query.    *)
MaxSearches == 3
Queries == {NoQuery, 1, 2}

(* SearchInput's debounced onChange, or handleClear: setQuery(q); the      *)
(* debounce effect clears the timer of the previous query and starts one   *)
SetQuery(q) ==
  /\ q # query
  /\ query' = q
  /\ searchTimer' = TRUE
  /\ UNCHANGED <<results, searchReqs, searchSeq>>
  /\ UNCHANGED <<serverVars, feedVars, posts, cardVars>>
  /\ UNCHANGED notSearch

(* performSearch(searchQuery) up to the await *)
PerformSearch(searchQuery) ==
  IF searchQuery = NoQuery
    THEN /\ results' = NoQuery
         /\ UNCHANGED <<searchReqs, searchSeq>>
    ELSE /\ searchSeq' = searchSeq + 1
         /\ searchReqs' = searchReqs \cup
              {[seq |-> searchSeq + 1, query |-> searchQuery,
                stage |-> "sent", status |-> 0]}
         /\ UNCHANGED results

(* the 300 ms timer of the debounce effect fires *)
DebounceFires ==
  /\ searchTimer
  /\ query = NoQuery \/ searchSeq < MaxSearches
  /\ searchTimer' = FALSE
  /\ PerformSearch(query)
  /\ UNCHANGED query
  /\ UNCHANGED <<serverVars, feedVars, posts, cardVars>>
  /\ UNCHANGED notSearch

(* the response to fetch(/api/search?q=...) arrives, ok or not *)
SearchGET(r) ==
  /\ r.stage = "sent"
  /\ \E status \in {200, 500} :
       searchReqs' = (searchReqs \ {r}) \cup
                       {[r EXCEPT !.stage = "answered", !.status = status]}
  /\ UNCHANGED <<query, searchTimer, results, searchSeq>>
  /\ UNCHANGED <<serverVars, feedVars, posts, cardVars>>
  /\ UNCHANGED notSearch

(* performSearch after the await: the lists of the response, or the empty  *)
(* lists and an error                                                      *)
PerformSearchSettle(r) ==
  /\ r.stage = "answered"
  /\ results' = IF r.status = 200 THEN r.query ELSE NoQuery
  /\ searchReqs' = (searchReqs \ {r}) \cup {[r EXCEPT !.stage = "settled"]}
  /\ UNCHANGED <<query, searchTimer, searchSeq>>
  /\ UNCHANGED <<serverVars, feedVars, posts, cardVars>>
  /\ UNCHANGED notSearch

(* the search page after its first render: the debounce effect has started *)
(* its timer for the query of the URL                                      *)
InitSearch ==
  /\ serverPosts = <<3, 2, 1>>
  /\ signedIn = TRUE
  /\ likes = {} /\ saves = {} /\ otherLikes = 0
  /\ posts = <<>>
  /\ FeedAtRest /\ CardAtRest /\ FollowAtRest /\ CommentsAtRest
  /\ ModalAtRest
  /\ serverMedia = {serverPosts[i] : i \in 1..Len(serverPosts)}
  /\ modalComments = NoPost /\ modalRef = FALSE /\ modalLoads = {}
  /\ loadSeq = 0
  /\ effectDeps = [open |-> FALSE, postId |-> NoPost, inst |-> 0]
  /\ query \in Queries /\ searchTimer = TRUE /\ results = NoQuery
  /\ searchReqs = {} /\ searchSeq = 0

NextSearch ==
  \/ \E q \in Queries : SetQuery(q)
  \/ DebounceFires
  \/ \E r \in searchReqs : SearchGET(r)
  \/ \E r \in searchReqs : PerformSearchSettle(r)

SpecSearch == InitSearch /\ [][NextSearch]_vars

(* ------------------------ claims on the search page -------------------- *)
SearchSettled ==
  /\ ~searchTimer
  /\ \A r \in searchReqs : r.stage = "settled" /\ r.status = 200

(* C30: once the debounce timer has fired and every search request has     *)
(* settled with success, the results shown are those of the query entered  *)
(* last, and are empty when that query is empty.                           *)
C30_ResultsOfLatestQuery == SearchSettled => results = query

=============================================================================
